---- MODULE Spec2Model ----
(***************************************************************************)
(* Timing/schedule engine of the IEEE 802.11ad MAC evaluation framework:   *)
(* the interval allocator (core/timeslot.py), the duration generator       *)
(* (core/duration_generator.py), the beamforming allocation scheduler      *)
(* (core/helpers.py) and the run skeleton of the two in-out studies        *)
(* (core/inOutStudy.py).                                                   *)
(***************************************************************************)
EXTENDS Integers, Sequences, FiniteSets, TLC

VARIABLES
    parent,          \* the ResponsibleTimeslot: [id, timestamp, duration]
    available_time,  \* parent.at.available_time: list of (start, end) tuples
    children,        \* parent.children: list of accepted child timeslots
    call,            \* the last call made on the parent, with the state before it
    ncalls,          \* number of calls made so far
    tiling,          \* the ranges a caller is going to allocate to cover the parent
    tiles,           \* the ranges of the tiling not yet allocated
    bft_args,        \* arguments of get_number_of_bft_allocations
    bft_ret,         \* what the call returned and printed, NoReturn before it
    dg,              \* the DurationGenerator: its duration attributes
    got,             \* the last call made on the DurationGenerator and its outcome
    study,           \* an in-out study: its configuration and its position
    helper,          \* a call of a function of helpers.py: arguments and outcome
    sweep            \* a study execution: its jobs, the queue and the Db

alloc_vars == <<parent, available_time, children, call, ncalls>>
tile_vars == <<tiling, tiles>>
bft_vars == <<bft_args, bft_ret>>
dg_vars == <<dg, got, study>>
more_vars == <<helper, sweep>>
vars == <<alloc_vars, tile_vars, bft_vars, dg_vars, more_vars>>

(***************************************************************************)
(* Bounds of the model.                                                    *)
(***************************************************************************)
TMax == 4        \* the time axis is 0..TMax
MaxCalls == 3    \* calls made on one ResponsibleTimeslot
TileSpan == 5    \* longest parent that is covered by tiles
MaxBi == 4       \* largest num_of_observed_bi
MaxBiDuration == 3   \* largest bi_duration
MaxUsers == 5    \* largest num_of_users
MaxRunBi == 3    \* largest num_of_observed_bi of a study run
MaxRunUsers == 2 \* largest num_of_users of a study run
BerDigits == 3   \* a BER is a multiple of 10^-BerDigits
NumMcs == 3      \* MCS indexes of the BER table
MaxSubframes == 6    \* largest number of A-MSDU subframes
MaxPool == 3     \* largest mp_pool_size
MaxConfigValues == 2 \* most values of one parameter of a study configuration
MaxDigit == 5    \* largest digit in the name of a log directory
MaxNameLen == 2  \* longest name of a log directory
MaxDirs == 3     \* most entries of the parent log directory

Times == 0..TMax

NoArgs == [num_of_observed_bi |-> 0, bi_duration |-> 0, bft_period |-> 0,
           num_of_users |-> 0]
NoReturn == [returned |-> FALSE, single_user |-> << >>, multi_user |-> << >>,
             notice |-> FALSE]
NoDg == [none |-> TRUE]
NoGot == [op |-> "none", name |-> "", err |-> "", value |-> << >>]
NoStudy == [pc |-> "none"]
NoHelper == [op |-> "none"]
NoSweep == [pc |-> "none"]

Max(x, y) == IF x >= y THEN x ELSE y
Min(x, y) == IF x <= y THEN x ELSE y

(***************************************************************************)
(* core/timeslot.py : AvailableTime                                        *)
(***************************************************************************)
OverlappingAllocation == "Tried fitting overlapping timeslot"
InsufficientTime == "Insufficient time"

\* AvailableTime.__init__
AvailableTime(t_start, t_end) == << <<t_start, t_end>> >>

\* The loop without its partial-overlap branch: it keeps looking after a
\* range that holds only one of the two end points.
RECURSIVE get_available_time_idx_from_no_partial(_, _, _, _)
get_available_time_idx_from_no_partial(at_list, at_idx, t_start, t_end) ==
    IF at_idx > Len(at_list)
    THEN [err |-> InsufficientTime, idx |-> 0]
    ELSE LET at == at_list[at_idx]
             check0 == t_start >= at[1] /\ t_start <= at[2]
             check1 == t_end >= at[1] /\ t_end <= at[2]
         IN  IF check0 /\ check1
             THEN [err |-> "", idx |-> at_idx]
             ELSE get_available_time_idx_from_no_partial(at_list, at_idx + 1, t_start, t_end)

\* The loop of get_available_time_idx from list position at_idx on.
RECURSIVE get_available_time_idx_from(_, _, _, _)
get_available_time_idx_from(at_list, at_idx, t_start, t_end) ==
    IF at_idx > Len(at_list)
    THEN [err |-> InsufficientTime, idx |-> 0]
    ELSE LET at == at_list[at_idx]
             check0 == t_start >= at[1] /\ t_start <= at[2]
             check1 == t_end >= at[1] /\ t_end <= at[2]
         IN  IF check0 /\ check1
             THEN [err |-> "", idx |-> at_idx]
             ELSE IF check0 \/ check1
                  THEN [err |-> OverlappingAllocation, idx |-> 0]
                  ELSE get_available_time_idx_from(at_list, at_idx + 1, t_start, t_end)

get_available_time_idx(at_list, t_start, t_end) ==
    get_available_time_idx_from(at_list, 1, t_start, t_end)

\* at_list[:idx] + update + at_list[idx+1:]  (idx is 1-based here)
Splice(at_list, idx, update) ==
    SubSeq(at_list, 1, idx - 1) \o update \o SubSeq(at_list, idx + 1, Len(at_list))

\* allocate_available_time with the slice [:idx - 1] in place of [:idx] when
\* the range is split (Python: idx - 1 = -1 stands for 'all but the last').
allocate_available_time_short_slice(at_list, t_start, t_end) ==
    LET r == get_available_time_idx(at_list, t_start, t_end)
        idx == r.idx
    IN  IF r.err # ""
        THEN [err |-> r.err, at |-> at_list]
        ELSE IF t_start = at_list[idx][1] /\ t_end = at_list[idx][2]
             THEN [err |-> "", at |-> Splice(at_list, idx, << >>)]
             ELSE IF t_start = at_list[idx][1]
                  THEN [err |-> "", at |-> Splice(at_list, idx, << <<t_end, at_list[idx][2]>> >>)]
                  ELSE IF t_end = at_list[idx][2]
                       THEN [err |-> "", at |-> Splice(at_list, idx, << <<at_list[idx][1], t_start>> >>)]
                       ELSE [err |-> "",
                             at |-> SubSeq(at_list, 1, IF idx = 1 THEN Len(at_list) - 1 ELSE idx - 2)
                                    \o << <<at_list[idx][1], t_start>>, <<t_end, at_list[idx][2]>> >>
                                    \o SubSeq(at_list, idx + 1, Len(at_list))]

\* allocate_available_time: the error raised ("" when none) and the list after.
allocate_available_time(at_list, t_start, t_end) ==
    LET r == get_available_time_idx(at_list, t_start, t_end)
        idx == r.idx
    IN  IF r.err # ""
        THEN [err |-> r.err, at |-> at_list]
        ELSE IF t_start = at_list[idx][1] /\ t_end = at_list[idx][2]
             THEN [err |-> "", at |-> Splice(at_list, idx, << >>)]
             ELSE IF t_start = at_list[idx][1]
                  THEN [err |-> "", at |-> Splice(at_list, idx, << <<t_end, at_list[idx][2]>> >>)]
                  ELSE IF t_end = at_list[idx][2]
                       THEN [err |-> "", at |-> Splice(at_list, idx, << <<at_list[idx][1], t_start>> >>)]
                       ELSE [err |-> "", at |-> Splice(at_list, idx,
                                 << <<at_list[idx][1], t_start>>, <<t_end, at_list[idx][2]>> >>)]

(***************************************************************************)
(* core/timeslot.py : Timeslot, ResponsibleTimeslot                        *)
(***************************************************************************)
NoParent == -1

\* Timeslot.__init__: an orphan timeslot (no parent_id attribute yet).
Timeslot(timestamp, duration) ==
    [timestamp |-> timestamp, duration |-> duration, parent_id |-> NoParent]

\* Timeslot.set_parent
set_parent(child, p) == [child EXCEPT !.parent_id = p.id]

\* child: the timeslot handed to add_child, as the call has left it.
NoCall == [op |-> "none", t_start |-> 0, t_end |-> 0, err |-> "",
           before |-> << >>, children_before |-> << >>, child |-> Timeslot(0, 0)]

\* ResponsibleTimeslot.__init__
ResponsibleTimeslot(id, timestamp, duration) ==
    /\ parent = [id |-> id, timestamp |-> timestamp, duration |-> duration]
    /\ available_time = AvailableTime(timestamp, timestamp + duration)
    /\ children = << >>

Init ==
    /\ \E timestamp \in 0..1 : \E t_end \in (TMax - 1)..TMax :
          ResponsibleTimeslot(0, timestamp, t_end - timestamp)
    /\ call = NoCall
    /\ ncalls = 0
    /\ tiling = {}
    /\ tiles = {}
    /\ bft_args = NoArgs
    /\ bft_ret = NoReturn
    /\ helper = NoHelper
    /\ sweep = NoSweep
    /\ dg = NoDg
    /\ got = NoGot
    /\ study = NoStudy

\* A direct allocate_available_time(t_start, t_end) on the parent's tracker.
allocate(t_start, t_end) ==
    /\ ncalls < MaxCalls
    /\ LET r == allocate_available_time(available_time, t_start, t_end)
       IN  /\ available_time' = r.at
           /\ call' = [op |-> "allocate", t_start |-> t_start, t_end |-> t_end,
                       err |-> r.err, before |-> available_time,
                       children_before |-> children, child |-> Timeslot(0, 0)]
    /\ ncalls' = ncalls + 1
    /\ UNCHANGED <<parent, children, tile_vars, bft_vars, dg_vars, more_vars>>

\* add_child with the append and the set_parent ahead of the allocation.
add_child_body_append_first(timestamp, duration) ==
    /\ LET child == set_parent(Timeslot(timestamp, duration), parent)
           r == allocate_available_time(available_time, child.timestamp,
                                        child.timestamp + child.duration)
       IN  /\ available_time' = r.at
           /\ children' = Append(children, child)
           /\ call' = [op |-> "add_child", t_start |-> child.timestamp,
                       t_end |-> child.timestamp + child.duration,
                       err |-> r.err, before |-> available_time,
                       children_before |-> children, child |-> child]
    /\ ncalls' = ncalls + 1
    /\ UNCHANGED parent

\* The body of ResponsibleTimeslot.add_child for Timeslot(.., timestamp,
\* duration): the exception of allocate_available_time leaves the method
\* before the append and the set_parent.
add_child_body(timestamp, duration) ==
    /\ LET child == Timeslot(timestamp, duration)
           r == allocate_available_time(available_time, child.timestamp,
                                        child.timestamp + child.duration)
       IN  /\ available_time' = r.at
           /\ children' = IF r.err = ""
                          THEN Append(children, set_parent(child, parent))
                          ELSE children
           /\ call' = [op |-> "add_child", t_start |-> child.timestamp,
                       t_end |-> child.timestamp + child.duration,
                       err |-> r.err, before |-> available_time,
                       children_before |-> children,
                       child |-> IF r.err = "" THEN set_parent(child, parent) ELSE child]
    /\ ncalls' = ncalls + 1
    /\ UNCHANGED parent

add_child(timestamp, duration) ==
    /\ ncalls < MaxCalls
    /\ add_child_body(timestamp, duration)
    /\ UNCHANGED <<tile_vars, bft_vars, dg_vars, more_vars>>

Next ==
    \/ \E t_start \in Times : \E t_end \in Times : allocate(t_start, t_end)
    \/ \E timestamp \in Times : \E t_end \in Times :
          add_child(timestamp, t_end - timestamp)

Spec == Init /\ [][Next]_vars

(***************************************************************************)
(* A caller that covers a parent with children: the parent's span is cut   *)
(* at a set of inner points and the pieces are added in any order.         *)
(***************************************************************************)
\* The pieces of [t_start, t_end] cut at the points of cuts.
Pieces(t_start, t_end, cuts) ==
    LET marks == cuts \cup {t_start, t_end}
    IN  {<<a, b>> \in marks \X marks :
            a < b /\ ~\E m \in marks : a < m /\ m < b}

InitTile ==
    /\ \E timestamp \in 0..1 : \E duration \in 1..TileSpan :
          /\ ResponsibleTimeslot(0, timestamp, duration)
          /\ \E cuts \in SUBSET ((timestamp + 1)..(timestamp + duration - 1)) :
                tiling = Pieces(timestamp, timestamp + duration, cuts)
    /\ tiles = tiling
    /\ call = NoCall
    /\ ncalls = 0
    /\ bft_args = NoArgs
    /\ bft_ret = NoReturn
    /\ helper = NoHelper
    /\ sweep = NoSweep
    /\ dg = NoDg
    /\ got = NoGot
    /\ study = NoStudy

add_tile ==
    \E t \in tiles :
        /\ add_child_body(t[1], t[2] - t[1])
        /\ tiles' = tiles \ {t}
        /\ UNCHANGED <<tiling, bft_vars, dg_vars, more_vars>>

NextTile == add_tile

SpecTile == InitTile /\ [][NextTile]_vars

(***************************************************************************)
(* Python float (IEEE 754 binary64) arithmetic of the carry loop in        *)
(* get_number_of_bft_allocations.  A non-negative float is held exactly,   *)
(* as the integer number of units of 2^-FracBits it is worth, split in two *)
(* limbs <<high, low>> = high * 2^LimbBits + low.  This is exact for a     *)
(* rate bi_duration / bft_period in [2^-3, 7) and for the carries derived  *)
(* from it: a binary64 of at least 2^-3 is a multiple of 2^-55, and so are *)
(* the rounded sums and the remainders modulo 1.                           *)
(***************************************************************************)
Precision == 53      \* significand bits of a binary64
FracBits == 55       \* Precision - 1 + 3
LimbBits == 29

RECURSIVE Pow2(_)
Pow2(n) == IF n = 0 THEN 1 ELSE 2 * Pow2(n - 1)

Limb == Pow2(LimbBits)

\* floor(log2(v)) for 0 < v < 2^30
Log2Floor(v) == CHOOSE k \in 0..29 : Pow2(k) <= v /\ (k = 29 \/ v < Pow2(k + 1))

FloatZero == <<0, 0>>

\* The exact sum of two values.
ExactSum(x, y) ==
    <<x[1] + y[1] + ((x[2] + y[2]) \div Limb), (x[2] + y[2]) % Limb>>

\* Position of the leading 1 bit, -1 for zero.
LeadingBit(x) ==
    IF x[1] > 0 THEN LimbBits + Log2Floor(x[1])
    ELSE IF x[2] > 0 THEN Log2Floor(x[2]) ELSE -1

\* Round to nearest, ties to even, at Precision significant bits.  At most
\* 6 bits are dropped, all of them in the low limb.
RoundToFloat(x) ==
    LET drop == LeadingBit(x) - (Precision - 1)
    IN  IF drop <= 0 THEN x
        ELSE LET kept == <<x[1], x[2] - (x[2] % Pow2(drop))>>
                 half == (x[2] \div Pow2(drop - 1)) % 2 = 1
                 below == x[2] % Pow2(drop - 1) # 0
                 odd == (x[2] \div Pow2(drop)) % 2 = 1
             IN  IF half /\ (below \/ odd)
                 THEN ExactSum(kept, <<0, Pow2(drop)>>)
                 ELSE kept

\* x + y on floats
FloatAdd(x, y) == RoundToFloat(ExactSum(x, y))

\* int(x) of a non-negative float
FloatInt(x) == x[1] \div Pow2(FracBits - LimbBits)

\* x % 1 of a non-negative float (exact)
FloatMod1(x) == <<x[1] % Pow2(FracBits - LimbBits), x[2]>>

\* num / den of two positive ints: the float nearest to the quotient.  With
\* 2^e <= num / den < 2^(e+1), the 53 quotient bits come from a long division
\* in chunks of 24, 24 and 5 bits (den * 2^e < 2^7 keeps it in range).
FloatDiv(num, den) ==
    LET e == CHOOSE k \in (Precision - 1 - FracBits)..2 :
                 IF k >= 0
                 THEN den * Pow2(k) <= num /\ num < den * Pow2(k + 1)
                 ELSE den <= num * Pow2(0 - k) /\ num * Pow2(0 - k) < 2 * den
        n2 == IF e >= 0 THEN num ELSE num * Pow2(0 - e)
        d2 == IF e >= 0 THEN den * Pow2(e) ELSE den
        q1 == (n2 * Pow2(23)) \div d2
        r1 == (n2 * Pow2(23)) % d2
        q2 == (r1 * Pow2(24)) \div d2
        r2 == (r1 * Pow2(24)) % d2
        q3 == (r2 * Pow2(5)) \div d2
        r3 == (r2 * Pow2(5)) % d2
        qlow == q2 * Pow2(5) + q3
        shift == FracBits + e - (Precision - 1)
        q == <<q1 * Pow2(shift) + (qlow \div Pow2(LimbBits - shift)),
               (qlow % Pow2(LimbBits - shift)) * Pow2(shift)>>
    IN  IF 2 * r3 > d2 \/ (2 * r3 = d2 /\ q3 % 2 = 1)
        THEN ExactSum(q, <<0, Pow2(shift)>>)
        ELSE q

(***************************************************************************)
(* core/helpers.py : get_number_of_bft_allocations                         *)
(***************************************************************************)
RECURSIVE SeqSum(_)
SeqSum(s) == IF s = << >> THEN 0 ELSE Head(s) + SeqSum(Tail(s))

\* np.zeros(n, dtype=int)
np_zeros(n) == [i \in 1..n |-> 0]

\* np.roll(arr, shift): the element at 0-based position j moves to
\* (j + shift) mod n.  Sequences are 1-based.
np_roll(arr, shift) ==
    [i \in 1..Len(arr) |-> arr[((i - 1 - shift) % Len(arr)) + 1]]

\* bft_per_bi_array[np.random.randint(0, num_of_observed_bi)] = 1, for the
\* 0-based index rnd drawn by randint.
bft_fallback_none(num_of_observed_bi, rnd) == np_zeros(num_of_observed_bi)

bft_fallback(num_of_observed_bi, rnd) ==
    [np_zeros(num_of_observed_bi) EXCEPT ![rnd + 1] = 1]

\* The carry loop: idx is the 0-based loop index, arr the entries set so far.
RECURSIVE bft_carry_loop(_, _, _, _, _)
bft_carry_loop(idx, num_of_observed_bi, carry, bft_per_bi, arr) ==
    IF idx = num_of_observed_bi THEN arr
    ELSE LET c == FloatAdd(carry, bft_per_bi)
         IN  bft_carry_loop(idx + 1, num_of_observed_bi, FloatMod1(c),
                            bft_per_bi, Append(arr, FloatInt(c)))

\* for i in range(num_of_users): multi_user += np.roll(bft_per_bi_array, i)
RECURSIVE bft_users_loop(_, _, _, _)
bft_users_loop(i, num_of_users, bft_per_bi_array, multi_user) ==
    IF i >= num_of_users THEN multi_user
    ELSE bft_users_loop(i + 1, num_of_users, bft_per_bi_array,
             [j \in 1..Len(multi_user) |->
                 multi_user[j] + np_roll(bft_per_bi_array, i)[j]])

\* multi_user = bft_per_bi_array * num_of_users
bft_apply_users_in_sync(bft_per_bi_array, num_of_users) ==
    [j \in 1..Len(bft_per_bi_array) |-> bft_per_bi_array[j] * num_of_users]

bft_apply_users(bft_per_bi_array, num_of_users) ==
    bft_users_loop(0, num_of_users, bft_per_bi_array,
                   np_zeros(Len(bft_per_bi_array)))

\* The function for the index rnd that np.random.randint returns when asked.
get_number_of_bft_allocations(num_of_observed_bi, bi_duration, bft_period, num_of_users, rnd) ==
    LET fallback == bft_period > num_of_observed_bi * bi_duration
        bft_per_bi_array ==
            IF fallback
            THEN bft_fallback(num_of_observed_bi, rnd)
            ELSE bft_carry_loop(0, num_of_observed_bi, FloatZero,
                                FloatDiv(bi_duration, bft_period), << >>)
    IN  [returned |-> TRUE,
         single_user |-> bft_per_bi_array,
         multi_user |-> bft_apply_users(bft_per_bi_array, num_of_users),
         notice |-> fallback]

InitBft ==
    /\ \E n \in 1..MaxBi : \E d \in 1..MaxBiDuration :
       \E p \in 1..(MaxBi * MaxBiDuration + 1) : \E k \in 1..MaxUsers :
          bft_args = [num_of_observed_bi |-> n, bi_duration |-> d,
                      bft_period |-> p, num_of_users |-> k]
    /\ bft_ret = NoReturn
    /\ helper = NoHelper
    /\ sweep = NoSweep
    /\ parent = [id |-> 0, timestamp |-> 0, duration |-> 0]
    /\ available_time = << >>
    /\ children = << >>
    /\ call = NoCall
    /\ ncalls = 0
    /\ tiling = {}
    /\ tiles = {}
    /\ dg = NoDg
    /\ got = NoGot
    /\ study = NoStudy

call_get_number_of_bft_allocations ==
    /\ ~bft_ret.returned
    /\ \E rnd \in 0..(bft_args.num_of_observed_bi - 1) :
          /\ (bft_args.bft_period <= bft_args.num_of_observed_bi * bft_args.bi_duration
              => rnd = 0)
          /\ bft_ret' = get_number_of_bft_allocations(
                            bft_args.num_of_observed_bi, bft_args.bi_duration,
                            bft_args.bft_period, bft_args.num_of_users, rnd)
    /\ UNCHANGED <<bft_args, alloc_vars, tile_vars, dg_vars, more_vars>>

NextBft == call_get_number_of_bft_allocations

SpecBft == InitBft /\ [][NextBft]_vars

(***************************************************************************)
(* core/constants.py                                                       *)
(***************************************************************************)
PPDU_PREAMBLE_LEN == 3328
PPDU_HEADER_LEN == 1024
PPDU_GI_LENGTH == 64
N_CBPB == <<448, 896, 1792, 2688>>
CONTROL_PPDU_PREAMBLE_LEN == 7552
CONTROL_PPDU_HEADER_LEN == 40
L_CWD == 168
SIFS_NS == 3000
DIFS_NS == 13000
TXTIME_SSW == 14641
SBIFS_NS == 1000
MBIFS_NS == 3 * SIFS_NS
LBIFS_NS == TXTIME_SSW + 2 * SBIFS_NS
AGC_AND_TRN_LENGTH == 5312

(***************************************************************************)
(* core/helpers.py : frame sizes in symbols.  The divisions are exact      *)
(* integer divisions; they give what the float expressions of the source   *)
(* give (no quotient falls on a rounding tie: every frame size is a        *)
(* multiple of 4 symbols, a tie of x / 1.76 needs x = 22 mod 44).          *)
(***************************************************************************)
CeilDiv(a, b) == (a + b - 1) \div b
RoundDiv(a, b) == (2 * a + b) \div (2 * b)

\* round(symbols / SYMBOL_RATE_GHZ), SYMBOL_RATE_GHZ = 1.76 = 44 / 25
SymbolsToNs(symbols) == RoundDiv(symbols * 25, 44)

calc_control_frame_ppdu_size(payload_bytes) ==
    LET N_cw == 1 + CeilDiv((payload_bytes - 6) * 8, L_CWD)
        num_of_parity_symbols == 168 * N_cw
        num_of_data_symbols == (payload_bytes + 5) * 8
        num_of_useful_symbols == (num_of_parity_symbols + num_of_data_symbols) * 32
    IN  CONTROL_PPDU_PREAMBLE_LEN + CONTROL_PPDU_HEADER_LEN + num_of_useful_symbols

\* code_rate is the fraction rate[1] / rate[2]:
\* N_blks = ceil(N_cw * 672 / N_cbpb) with N_cw = bytes * 8 / (672 * code_rate)
calc_data_frame_ppdu_size(PSDU_length_bytes, modulation_rate, rate) ==
    LET cbpb == N_CBPB[(modulation_rate \div 2) + 1]
        N_blks == CeilDiv(PSDU_length_bytes * 8 * rate[2], rate[1] * cbpb)
        payload_size_symbols == N_blks * 512
    IN  PPDU_PREAMBLE_LEN + PPDU_HEADER_LEN + payload_size_symbols + PPDU_GI_LENGTH

(***************************************************************************)
(* core/duration_generator.py : DurationGenerator.  An attribute is None   *)
(* (the class attribute), absent (the class declares none and no generate_ *)
(* has assigned it) or set.  A set duration is held as the list of its     *)
(* numbers: one number, or one per beacon interval when                    *)
(* generate_bti_duration is handed the array of allocation counts.         *)
(***************************************************************************)
StateError == "Tried fetching unset duration."
AttributeError == "'DurationGenerator' object has no attribute"

IsNone == [state |-> "None", value |-> << >>]
IsAbsent == [state |-> "absent", value |-> << >>]
IsSet(v) == [state |-> "set", value |-> v]

DurationNames ==
    {"guard_time_duration", "bti_duration", "bft_duration", "data_ppdu_duration",
     "cts_duration", "ack_duration", "data_with_overhead_duration"}

\* The class body and __init__: five attributes are declared with None.
DurationGenerator ==
    [guard_time_duration |-> IsAbsent,
     bti_duration |-> IsNone,
     bft_duration |-> IsNone,
     data_ppdu_duration |-> IsNone,
     cts_duration |-> IsNone,
     ack_duration |-> IsNone,
     data_with_overhead_duration |-> IsAbsent]

\* check_existence_and_return_duration(duration)
check_existence_and_return_duration(duration) ==
    IF duration.state = "None"
    THEN [err |-> StateError, value |-> << >>]
    ELSE [err |-> "", value |-> duration.value]

\* get_<name>(): the attribute look-up self.<name>, then the check.
get_duration(d, name) ==
    IF d[name].state = "absent"
    THEN [err |-> AttributeError, value |-> << >>]
    ELSE check_existence_and_return_duration(d[name])

\* ceil((C * bi_duration + SIFS_NS + Tp) * 10**(-3)) * 10**3, with C = 20 ppm
\* = 1 / 50000 and Tp = 100
generate_guard_time_duration(d, bi_duration) ==
    LET Tp == 100
        duration_rounded_to_us ==
            CeilDiv(bi_duration + (SIFS_NS + Tp) * 50000, 50000 * 1000)
    IN  [d EXCEPT !.guard_time_duration = IsSet(<<duration_rounded_to_us * 1000>>)]

bti_duration_for(num_of_allocations) ==
    LET bf_payload_length == 66 + (2 + 15 * num_of_allocations) + 34
    IN  SymbolsToNs(calc_control_frame_ppdu_size(bf_payload_length))

\* num_of_allocations: a list, of one count or of one count per beacon interval
generate_bti_duration(d, num_of_allocations) ==
    [d EXCEPT !.bti_duration =
        IsSet([i \in 1..Len(num_of_allocations) |->
                  bti_duration_for(num_of_allocations[i])])]

\* The result is not rounded by the source (brp_duration is a quotient by
\* 1.76): it is held as a number of 1/44 ns.
bft_duration_x44(i_antennas, i_antenna_sectors, r_antennas, r_antenna_sectors, enable_SLS, enable_r_TXSS) ==
    LET i_ssw_slots == i_antennas * i_antenna_sectors * r_antennas
        r_ssw_slots == IF enable_r_TXSS
                       THEN r_antennas * r_antenna_sectors * i_antennas
                       ELSE 1
        ssw_ppdu_size == calc_control_frame_ppdu_size(24)
        ssw_fbk_ppdu_size == calc_control_frame_ppdu_size(28)
        ssw_ack_ppdu_size == calc_control_frame_ppdu_size(28)
        ppdu_size_sum == ssw_ppdu_size * (i_ssw_slots + r_ssw_slots)
                         + ssw_fbk_ppdu_size + ssw_ack_ppdu_size
        ppdu_time_sum == SymbolsToNs(ppdu_size_sum)
        switch == IF r_antennas = 1 THEN MBIFS_NS ELSE LBIFS_NS
        idle_time_sum ==
            SBIFS_NS * (i_antenna_sectors - 1) * i_antennas * r_antennas
            + LBIFS_NS * i_antennas * r_antennas
            + MBIFS_NS
            + (IF enable_r_TXSS
               THEN SBIFS_NS * (r_antenna_sectors - 1) * r_antennas * i_antennas
                    + LBIFS_NS * i_antennas * r_antennas
               ELSE 0)
            + switch + switch
        sls == IF enable_SLS THEN ppdu_time_sum + idle_time_sum + SIFS_NS ELSE 0
        i_brp_sectors == Max(2, CeilDiv(i_antenna_sectors, 4))
        r_brp_sectors == Max(2, CeilDiv(r_antenna_sectors, 4))
        brp_symbols == calc_control_frame_ppdu_size(42) + i_brp_sectors * AGC_AND_TRN_LENGTH
                       + calc_control_frame_ppdu_size(42) + r_brp_sectors * AGC_AND_TRN_LENGTH
    IN  44 * sls + 25 * brp_symbols + 44 * SIFS_NS

generate_bft_duration(d, i_antennas, i_antenna_sectors, r_antennas, r_antenna_sectors, enable_SLS, enable_r_TXSS) ==
    [d EXCEPT !.bft_duration =
        IsSet(<<bft_duration_x44(i_antennas, i_antenna_sectors, r_antennas,
                                 r_antenna_sectors, enable_SLS, enable_r_TXSS)>>)]

\* mcs: the row of the MCS table, <<Modulation_rate, Code_rate as a fraction>>
generate_data_ppdu_duration(d, payload_length, mcs) ==
    LET size == calc_data_frame_ppdu_size(payload_length, mcs[1], mcs[2])
    IN  [d EXCEPT !.data_ppdu_duration = IsSet(<<SymbolsToNs(size)>>)]

generate_cts_duration(d) ==
    [d EXCEPT !.cts_duration = IsSet(<<SymbolsToNs(calc_control_frame_ppdu_size(20))>>)]

generate_ack_duration(d, num_of_mpdu) ==
    LET ack_payload_length == IF num_of_mpdu = 1 THEN 14 ELSE 32
    IN  [d EXCEPT !.ack_duration =
            IsSet(<<SymbolsToNs(calc_control_frame_ppdu_size(ack_payload_length))>>)]

\* The error raised by a getter ("" when none) and the generator after.
generate_data_with_overhead_duration(d, enable_cts, enable_ack) ==
    LET data == get_duration(d, "data_ppdu_duration")
        cts == get_duration(d, "cts_duration")
        ack == get_duration(d, "ack_duration")
    IN  IF data.err # "" THEN [err |-> data.err, dg |-> d]
        ELSE IF enable_cts /\ cts.err # "" THEN [err |-> cts.err, dg |-> d]
        ELSE IF enable_ack /\ ack.err # "" THEN [err |-> ack.err, dg |-> d]
        ELSE LET duration == data.value[1] + DIFS_NS
                     + (IF enable_cts THEN cts.value[1] + SIFS_NS ELSE 0)
                     + (IF enable_ack THEN ack.value[1] + SIFS_NS ELSE 0)
             IN  [err |-> "",
                  dg |-> [d EXCEPT !.data_with_overhead_duration = IsSet(<<duration>>)]]

(***************************************************************************)
(* A caller of the DurationGenerator that calls its operations in any      *)
(* order.                                                                  *)
(***************************************************************************)
BiDurations == {50000000, 100000000}
\* rows of the MCS table: <<Modulation_rate, <<Code_rate>>>>
McsRows == {<<1, <<1, 2>>>>, <<4, <<3, 4>>>>}
PsduLengths == {1524}

Generated(d, name) == d[name].state = "set"

InitDg ==
    /\ dg = DurationGenerator
    /\ got = NoGot
    /\ study = NoStudy
    /\ parent = [id |-> 0, timestamp |-> 0, duration |-> 0]
    /\ available_time = << >>
    /\ children = << >>
    /\ call = NoCall
    /\ ncalls = 0
    /\ tiling = {}
    /\ tiles = {}
    /\ bft_args = NoArgs
    /\ bft_ret = NoReturn
    /\ helper = NoHelper
    /\ sweep = NoSweep

Generate(op, d) ==
    /\ dg' = d
    /\ got' = [op |-> op, name |-> "", err |-> "", value |-> << >>]
    /\ UNCHANGED <<study, alloc_vars, tile_vars, bft_vars, more_vars>>

Dg_generate_guard_time_duration ==
    \E bi_duration \in BiDurations :
        Generate("generate_guard_time_duration",
                 generate_guard_time_duration(dg, bi_duration))

Dg_generate_bti_duration ==
    \E noa \in 1..2 :
        Generate("generate_bti_duration", generate_bti_duration(dg, <<noa>>))

Dg_generate_bft_duration ==
    \E enable_SLS \in BOOLEAN :
        Generate("generate_bft_duration",
                 generate_bft_duration(dg, 1, 28, 1, 28, enable_SLS, TRUE))

Dg_generate_data_ppdu_duration ==
    \E payload_length \in PsduLengths : \E mcs \in McsRows :
        Generate("generate_data_ppdu_duration",
                 generate_data_ppdu_duration(dg, payload_length, mcs))

Dg_generate_cts_duration ==
    Generate("generate_cts_duration", generate_cts_duration(dg))

Dg_generate_ack_duration ==
    \E num_of_mpdu \in 1..2 :
        Generate("generate_ack_duration", generate_ack_duration(dg, num_of_mpdu))

Dg_generate_data_with_overhead_duration ==
    \E enable_cts \in BOOLEAN : \E enable_ack \in BOOLEAN :
        LET r == generate_data_with_overhead_duration(dg, enable_cts, enable_ack)
        IN  /\ dg' = r.dg
            /\ got' = [op |-> "generate_data_with_overhead_duration", name |-> "",
                       err |-> r.err, value |-> << >>]
            /\ UNCHANGED <<study, alloc_vars, tile_vars, bft_vars, more_vars>>

Dg_get_duration ==
    \E name \in DurationNames :
        LET r == get_duration(dg, name)
        IN  /\ got' = [op |-> "get", name |-> name, err |-> r.err, value |-> r.value]
            /\ UNCHANGED <<dg, study, alloc_vars, tile_vars, bft_vars, more_vars>>

NextDg ==
    \/ Dg_generate_guard_time_duration
    \/ Dg_generate_bti_duration
    \/ Dg_generate_bft_duration
    \/ Dg_generate_data_ppdu_duration
    \/ Dg_generate_cts_duration
    \/ Dg_generate_ack_duration
    \/ Dg_generate_data_with_overhead_duration
    \/ Dg_get_duration

SpecDg == InitDg /\ [][NextDg]_vars

(***************************************************************************)
(* core/helpers.py : frame lengths in octets                               *)
(***************************************************************************)
MAX_A_MSDU_LENGTH == 7935
SizeExceeded == "A-MSDU exceeded max size"

\* calc_a_msdu_length without the comparison with MAX_A_MSDU_LENGTH.
calc_a_msdu_length_unchecked(num_of_subframes, subframe_length) ==
    LET end_padding == subframe_length % 4
        a_msdu_length == num_of_subframes * (2 + subframe_length)
                         + (num_of_subframes - 1) * end_padding
    IN  IF num_of_subframes <= 1 THEN [err |-> "", value |-> subframe_length]
        ELSE [err |-> "", value |-> a_msdu_length]

\* calc_a_msdu_length: the error raised ("" when none) and the length.
calc_a_msdu_length(num_of_subframes, subframe_length) ==
    LET end_padding == subframe_length % 4
        a_msdu_length == num_of_subframes * (2 + subframe_length)
                         + (num_of_subframes - 1) * end_padding
    IN  IF num_of_subframes <= 1 THEN [err |-> "", value |-> subframe_length]
        ELSE IF a_msdu_length > MAX_A_MSDU_LENGTH THEN [err |-> SizeExceeded, value |-> 0]
        ELSE [err |-> "", value |-> a_msdu_length]

calc_a_mpdu_length(num_of_subframes, subframe_length) ==
    LET end_padding == subframe_length % 4
    IN  IF num_of_subframes <= 1 THEN subframe_length
        ELSE num_of_subframes * (4 + subframe_length)
             + (num_of_subframes - 1) * end_padding

\* calc_data_mpdu_length(msdu_length), ack_policy left at None
calc_data_mpdu_length(msdu_length) == 16 + msdu_length

(***************************************************************************)
(* core/helpers.py : get_optimal_mcs.  A BER is a whole number of          *)
(* 10^-BerDigits; the BER table maps an Eb_N0 of its index to the row of   *)
(* BERs, one for every MCS index 1 .. Len(row).                            *)
(***************************************************************************)
RECURSIVE Pow10(_)
Pow10(n) == IF n = 0 THEN 1 ELSE 10 * Pow10(n - 1)

KeyError == "KeyError"
ConstraintUnsatisfiable == "BER unattainable"

\* np.abs(np.log10(max_BER)).astype(int), for 0 < max_BER <= 1: the
\* logarithm is cut off towards zero
power_of(max_BER) ==
    BerDigits - (CHOOSE k \in 0..BerDigits :
                    /\ max_BER <= Pow10(k)
                    /\ k > 0 => Pow10(k - 1) < max_BER)

\* Series.round(power) of one BER: to the nearest multiple of 10^-power,
\* a tie to the even one
round(v, power) ==
    LET q == Pow10(BerDigits - power)
        r == v % q
    IN  IF 2 * r < q THEN v - r
        ELSE IF 2 * r > q THEN v - r + q
        ELSE IF ((v - r) \div q) % 2 = 0 THEN v - r ELSE v - r + q

\* get_optimal_mcs: the error raised ("" when none) and the MCS index.
\* ber.loc[Eb_N0] is outside the try block.
get_optimal_mcs(Eb_N0, max_BER, ber) ==
    IF Eb_N0 \notin DOMAIN ber THEN [err |-> KeyError, mcs |-> 0]
    ELSE LET power == power_of(max_BER)
             ber_row == [i \in DOMAIN ber[Eb_N0] |-> round(ber[Eb_N0][i], power)]
             complying == {i \in DOMAIN ber_row : ber_row[i] <= max_BER}
         IN  IF complying = {} THEN [err |-> ConstraintUnsatisfiable, mcs |-> 0]
             ELSE [err |-> "", mcs |-> CHOOSE i \in complying : \A j \in complying : j <= i]

\* Inputs of get_optimal_mcs: BERs of 0 to 1, none of them half way between
\* two multiples of a power of ten, thresholds 0.001, 0.01, 0.02 and 0.1 for
\* BerDigits = 3, a table with the single row Eb_N0 = 10.
BerValues == {0, 1, 4, 6, 14, 16, 40, Pow10(BerDigits)}
MaxBers == {Pow10(BerDigits - 3), Pow10(BerDigits - 2), 2 * Pow10(BerDigits - 2),
            Pow10(BerDigits - 1)}
EbN0Index == {10}
EbN0Values == {10, 11}
BerRows == [1..NumMcs -> BerValues]

NoOutcome == [err |-> "none"]

IdleButHelper ==
    /\ sweep = NoSweep
    /\ bft_args = NoArgs
    /\ bft_ret = NoReturn
    /\ parent = [id |-> 0, timestamp |-> 0, duration |-> 0]
    /\ available_time = << >>
    /\ children = << >>
    /\ call = NoCall
    /\ ncalls = 0
    /\ tiling = {}
    /\ tiles = {}
    /\ dg = NoDg
    /\ got = NoGot
    /\ study = NoStudy

InitMcs ==
    /\ \E Eb_N0 \in EbN0Values : \E max_BER \in MaxBers : \E row \in BerRows :
          helper = [op |-> "args", Eb_N0 |-> Eb_N0, max_BER |-> max_BER,
                    ber |-> [e \in EbN0Index |-> row], ret |-> NoOutcome]
    /\ IdleButHelper

call_get_optimal_mcs ==
    /\ helper.op = "args"
    /\ helper' = [helper EXCEPT
                    !.op = "get_optimal_mcs",
                    !.ret = get_optimal_mcs(helper.Eb_N0, helper.max_BER, helper.ber)]
    /\ UNCHANGED <<alloc_vars, tile_vars, bft_vars, dg_vars, sweep>>

NextMcs == call_get_optimal_mcs

SpecMcs == InitMcs /\ [][NextMcs]_vars

(***************************************************************************)
(* core/helpers.py : calc_a_msdu_length applied to numbers of subframes    *)
(* from 0 on and to subframe lengths on both sides of the lengths at which *)
(* an A-MSDU of 2 to MaxSubframes subframes reaches MAX_A_MSDU_LENGTH.     *)
(***************************************************************************)
SubframeLengths ==
    {0, 1, 500, 1500, 7920, MAX_A_MSDU_LENGTH, MAX_A_MSDU_LENGTH + 1}
    \cup UNION {{(MAX_A_MSDU_LENGTH \div n) - 2 + d : d \in -3..1} : n \in 2..MaxSubframes}

InitAMsdu ==
    /\ \E num_of_subframes \in 0..MaxSubframes : \E subframe_length \in SubframeLengths :
          helper = [op |-> "args", num_of_subframes |-> num_of_subframes,
                    subframe_length |-> subframe_length, ret |-> NoOutcome]
    /\ IdleButHelper

call_calc_a_msdu_length ==
    /\ helper.op = "args"
    /\ helper' = [helper EXCEPT
                    !.op = "calc_a_msdu_length",
                    !.ret = calc_a_msdu_length(helper.num_of_subframes,
                                               helper.subframe_length)]
    /\ UNCHANGED <<alloc_vars, tile_vars, bft_vars, dg_vars, sweep>>

NextAMsdu == call_calc_a_msdu_length

SpecAMsdu == InitAMsdu /\ [][NextAMsdu]_vars

(***************************************************************************)
(* core/inOutStudy.py : InOutStudy.set_mpdu_length applied to every MSDU   *)
(* length of 1 .. MAX_MSDU_LENGTH octets, with and without aggregation.    *)
(***************************************************************************)
MAX_MSDU_LENGTH == 7920

\* The error raised ("" when none) and the attributes the call sets.
InOutStudy_set_mpdu_length(msdu_length_bytes, msdu_max_agg) ==
    LET \* int() of the quotient of two positive numbers
        num_of_a_msdu_subframes ==
            IF msdu_max_agg THEN MAX_A_MSDU_LENGTH \div msdu_length_bytes ELSE 1
        a_msdu == calc_a_msdu_length(num_of_a_msdu_subframes, msdu_length_bytes)
    IN  IF a_msdu.err # ""
        THEN [err |-> a_msdu.err, num_of_a_msdu_subframes |-> num_of_a_msdu_subframes,
              a_msdu_length_bytes |-> 0, mpdu_length_bytes |-> 0]
        ELSE [err |-> "", num_of_a_msdu_subframes |-> num_of_a_msdu_subframes,
              a_msdu_length_bytes |-> a_msdu.value,
              mpdu_length_bytes |-> calc_data_mpdu_length(a_msdu.value)]

InitSetMpdu ==
    /\ \E msdu_length_bytes \in 1..MAX_MSDU_LENGTH : \E msdu_max_agg \in BOOLEAN :
          helper = [op |-> "args", msdu_length_bytes |-> msdu_length_bytes,
                    msdu_max_agg |-> msdu_max_agg, ret |-> NoOutcome]
    /\ IdleButHelper

call_set_mpdu_length ==
    /\ helper.op = "args"
    /\ helper' = [helper EXCEPT
                    !.op = "set_mpdu_length",
                    !.ret = InOutStudy_set_mpdu_length(helper.msdu_length_bytes,
                                                       helper.msdu_max_agg)]
    /\ UNCHANGED <<alloc_vars, tile_vars, bft_vars, dg_vars, sweep>>

NextSetMpdu == call_set_mpdu_length

SpecSetMpdu == InitSetMpdu /\ [][NextSetMpdu]_vars

(***************************************************************************)

(* core/log.py : get_log_sid.  A directory name is a sequence of           *)
(* characters, a character the offset of its code from that of '0': the    *)
(* digits are 0..9.  sid_zero_pad keeps its default None.                  *)
(***************************************************************************)
Letter == 49     \* 'a'

\* p.match(d) is not None for p = re.compile('^[0-9]*$')
p_match(d) == \A k \in 1..Len(d) : d[k] \in 0..9

\* int(d) of a name of decimal digits
RECURSIVE int(_)
int(d) == IF d = << >> THEN 0 ELSE 10 * int(SubSeq(d, 1, Len(d) - 1)) + d[Len(d)]

\* np.sort of the numbers of the names, one entry for each name
RECURSIVE np_sort_int(_)
np_sort_int(names) ==
    IF names = {} THEN << >>
    ELSE LET d == CHOOSE d \in names : \A o \in names : int(d) <= int(o)
         IN  <<int(d)>> \o np_sort_int(names \ {d})

\* np.argmin: the first index of the least entry (counted from 1 here)
np_argmin(a) ==
    CHOOSE k \in 1..Len(a) :
        /\ \A j \in 1..Len(a) : a[k] <= a[j]
        /\ \A j \in 1..(k - 1) : a[j] > a[k]

\* dirs: the set of names os.listdir returns
get_log_sid(dirs) ==
    LET existing_sid == np_sort_int({d \in dirs : p_match(d)})
        size == Len(existing_sid)
    IN  IF size = 0 THEN 0
        ELSE IF existing_sid[size] = size - 1 THEN existing_sid[size] + 1
        ELSE IF existing_sid[1] # 0 THEN 0
        ELSE LET diff == [k \in 1..(size - 1) |-> existing_sid[k] - existing_sid[k + 1]]
                 last_idx == np_argmin(diff)
             IN  existing_sid[last_idx] + 1

NameChars == 0..MaxDigit \cup {Letter}
DirNames == UNION {[1..n -> NameChars] : n \in 1..MaxNameLen}

RECURSIVE SetsUpTo(_, _)
SetsUpTo(S, n) ==
    IF n = 0 THEN {{}}
    ELSE LET smaller == SetsUpTo(S, n - 1)
         IN  smaller \cup {t \cup {x} : t \in smaller, x \in S}

InitSid ==
    /\ \E dirs \in SetsUpTo(DirNames, MaxDirs) :
          helper = [op |-> "args", dirs |-> dirs, sid |-> -1]
    /\ IdleButHelper

call_get_log_sid ==
    /\ helper.op = "args"
    /\ helper' = [helper EXCEPT !.op = "get_log_sid", !.sid = get_log_sid(helper.dirs)]
    /\ UNCHANGED <<alloc_vars, tile_vars, bft_vars, dg_vars, sweep>>

NextSid == call_get_log_sid

SpecSid == InitSid /\ [][NextSid]_vars

(***************************************************************************)
(* Times of the schedule engine.  The engine computes with Python floats;  *)
(* here a time is a whole number of ticks, TicksPerNs to the nanosecond,   *)
(* which holds every duration of the DurationGenerator and half a BFT      *)
(* duration exactly.  A quotient by a number of allocations or of users is *)
(* rounded down to a tick.                                                 *)
(***************************************************************************)
TicksPerNs == 88
Ticks(ns) == ns * TicksPerNs

\* int(x / y) for y > 0: truncation toward zero
TruncDiv(x, y) == IF x >= 0 THEN x \div y ELSE 0 - ((0 - x) \div y)

\* Body applied to the value of v, with v computed a single time: what a
\* Python statement does with the result of a call it has assigned to a name.
Bound(v, Body(_)) == CHOOSE out \in {Body(x) : x \in {v}} : TRUE

\* The durations a run reads through the getters, in ticks.
Durations(d) ==
    [guard |-> Ticks(d.guard_time_duration.value[1]),
     bft |-> 2 * d.bft_duration.value[1],
     cts |-> Ticks(d.cts_duration.value[1]),
     data_ppdu |-> Ticks(d.data_ppdu_duration.value[1]),
     ack |-> Ticks(d.ack_duration.value[1]),
     data_with_overhead |-> Ticks(d.data_with_overhead_duration.value[1])]

(***************************************************************************)
(* core/inOutStudy.py : DescriptiveInOutStudy.run, one beacon interval     *)
(***************************************************************************)
IndexError == "list index out of range"

\* child.add_child on the free list of its parent
add_child_to(at_list, timestamp, duration) ==
    allocate_available_time(at_list, timestamp, timestamp + duration)

\* lines 265-272: the SP-BFT timeslots idx .. noa_bft - 1
RECURSIVE add_sp_bft(_, _, _, _, _, _)
add_sp_bft(idx, noa_bft, t_start, t_step, bft, at_list) ==
    IF idx >= noa_bft THEN [err |-> "", at |-> at_list]
    ELSE LET timestamp == (idx + 1) * t_step - (bft \div 2) + t_start
         IN  Bound(add_child_to(at_list, timestamp, bft),
                   LAMBDA r : IF r.err # "" THEN r
                              ELSE add_sp_bft(idx + 1, noa_bft, t_start, t_step, bft, r.at))

\* lines 275-287: one SP-DATA for every free range of the snapshot at_list,
\* from range k on; sp collects <<timestamp, duration>> of the SP-DATA
RECURSIVE add_sp_data(_, _, _, _, _)
add_sp_data(k, snapshot, guard, at_list, sp) ==
    IF k > Len(snapshot) THEN [err |-> "", at |-> at_list, sp |-> sp]
    ELSE LET at == snapshot[k]
             timestamp == at[1] + guard
             duration == at[2] - at[1] - 2 * guard
         IN  Bound(add_child_to(at_list, timestamp, duration),
                   LAMBDA r : IF r.err # "" THEN [err |-> r.err, at |-> at_list, sp |-> sp]
                              ELSE add_sp_data(k + 1, snapshot, guard, r.at,
                                               Append(sp, <<timestamp, duration>>)))

\* lines 300-347: transmission i of an SP-DATA: self-CTS, data PPDU and ACK
\* are added to the SP-DATA, whose free list is at_list; leaves are the
\* timeslots handed to add_child
add_tx(i, sp_timestamp, dur, enable_cts, enable_ack, at_list) ==
    LET t0 == sp_timestamp + i * dur.data_with_overhead
        cts == IF enable_cts THEN add_child_to(at_list, t0, dur.cts)
               ELSE [err |-> "", at |-> at_list]
        t1 == IF enable_cts THEN t0 + dur.cts + Ticks(SIFS_NS) ELSE t0
        tx_block == IF cts.err # "" THEN cts ELSE add_child_to(cts.at, t1, dur.data_ppdu)
        t2 == t1 + dur.data_ppdu + Ticks(SIFS_NS)
        ack == IF tx_block.err # "" \/ ~enable_ack THEN tx_block
               ELSE add_child_to(tx_block.at, t2, dur.ack)
        leaf(name, timestamp, duration) ==
            [name |-> name, timestamp |-> timestamp, duration |-> duration]
    IN  [err |-> ack.err, at |-> ack.at, tx |-> [timestamp |-> t1, duration |-> dur.data_ppdu],
         leaves |-> (IF enable_cts THEN <<leaf("self-CTS", t0, dur.cts)>> ELSE << >>)
                    \o <<leaf("TX", t1, dur.data_ppdu)>>
                    \o (IF enable_ack THEN <<leaf("ACK", t2, dur.ack)>> ELSE << >>)]

RECURSIVE add_tx_from(_, _, _, _, _, _, _, _, _)
add_tx_from(i, num_of_tx_slots, sp_timestamp, dur, enable_cts, enable_ack, at_list, tx, leaves) ==
    IF i >= num_of_tx_slots THEN [err |-> "", tx |-> tx, leaves |-> leaves]
    ELSE Bound(add_tx(i, sp_timestamp, dur, enable_cts, enable_ack, at_list),
               LAMBDA r : IF r.err # "" THEN [err |-> r.err, tx |-> tx, leaves |-> leaves]
                          ELSE add_tx_from(i + 1, num_of_tx_slots, sp_timestamp, dur,
                                           enable_cts, enable_ack, r.at, Append(tx, r.tx),
                                           leaves \o r.leaves))

\* lines 292-347: the SP-DATA k .. of a beacon interval are populated;
\* blocks holds, for every SP-DATA done, its num_of_tx_slots and its leaves
RECURSIVE populate_sp_data(_, _, _, _, _, _, _, _)
populate_sp_data(k, sp, dur, enable_cts, enable_ack, total_data_blocks, tx, blocks) ==
    IF k > Len(sp)
    THEN [err |-> "", total_data_blocks |-> total_data_blocks, tx |-> tx, blocks |-> blocks]
    ELSE LET num_of_tx_slots == TruncDiv(sp[k][2], dur.data_with_overhead)
         IN  Bound(add_tx_from(0, num_of_tx_slots, sp[k][1], dur, enable_cts, enable_ack,
                               AvailableTime(sp[k][1], sp[k][1] + sp[k][2]), tx, << >>),
                   LAMBDA r :
                     IF r.err # ""
                     THEN [err |-> r.err, total_data_blocks |-> total_data_blocks, tx |-> tx,
                           blocks |-> blocks]
                     ELSE populate_sp_data(k + 1, sp, dur, enable_cts, enable_ack,
                                           total_data_blocks + num_of_tx_slots, r.tx,
                                           Append(blocks, [num_of_tx_slots |-> num_of_tx_slots,
                                                           leaves |-> r.leaves])))

\* lines 255-347, the pass for beacon interval i (0-based): ch_at is the free
\* list of the channel, tx the TX timeslots of the beacon intervals before.
\* bi: the free ranges of the BI at line 275, its SP-DATA and their leaves;
\* err_at: the name of the timeslot whose add_child raised.
descriptive_bi(i, bi_duration, noa_bft, bti, dur, enable_cts, enable_ack, ch_at, total_data_blocks, tx) ==
    LET timestamp == i * Ticks(bi_duration)
        failed(err, name) == [err |-> err, ch_at |-> ch_at,
                              total_data_blocks |-> total_data_blocks, tx |-> tx,
                              err_at |-> name, bi |-> << >>]
        sp_bft(r_bti) ==
            IF noa_bft = 0 THEN r_bti
            ELSE IF r_bti.at = << >> THEN [err |-> IndexError, at |-> << >>]
            ELSE LET t_start == r_bti.at[1][1]
                     t_end == r_bti.at[1][2]
                     t_step == (t_end - t_start) \div (noa_bft + 1)
                 IN  add_sp_bft(0, noa_bft, t_start, t_step, dur.bft, r_bti.at)
        arrivals(r_tx) ==
            [k \in 1..Len(r_tx.tx) |->
                [bi |-> i, arrival |-> r_tx.tx[k].timestamp + r_tx.tx[k].duration]]
    IN  Bound(add_child_to(ch_at, timestamp, Ticks(bi_duration)), LAMBDA r_bi :
          IF r_bi.err # "" THEN failed(r_bi.err, "BI")
          ELSE Bound(add_child_to(AvailableTime(timestamp, timestamp + Ticks(bi_duration)),
                                  timestamp, bti), LAMBDA r_bti :
            IF r_bti.err # "" THEN failed(r_bti.err, "BTI")
            ELSE Bound(sp_bft(r_bti), LAMBDA r_bft :
              IF r_bft.err # "" THEN failed(r_bft.err, "SP-BFT")
              ELSE Bound(add_sp_data(1, r_bft.at, dur.guard, r_bft.at, << >>), LAMBDA r_sp :
                IF r_sp.err # "" THEN failed(r_sp.err, "SP-DATA")
                ELSE Bound(populate_sp_data(1, r_sp.sp, dur, enable_cts, enable_ack,
                                            total_data_blocks, << >>, << >>), LAMBDA r_tx :
                  IF r_tx.err # "" THEN failed(r_tx.err, "TX")
                  ELSE [err |-> "", ch_at |-> r_bi.at,
                        total_data_blocks |-> r_tx.total_data_blocks,
                        tx |-> tx \o arrivals(r_tx),
                        err_at |-> "",
                        bi |-> <<[i |-> i, noa_bft |-> noa_bft, at |-> r_bft.at,
                                  sp |-> r_sp.sp, blocks |-> r_tx.blocks]>>])))))

(***************************************************************************)
(* core/inOutStudy.py : DescriptiveInOutStudy.calc_performance_metrics     *)
(***************************************************************************)
ZeroDivisionError == "division by zero"
ValueError == "ValueError"

\* A correction of each sample by itself: a sample that arrived before its
\* generation time is given its arrival time as generation time.
shift_generated_per_sample(t_msdu_generated, t_msdu_arrival, dur, enable_cts) ==
    LET n == Len(t_msdu_arrival)
        back == (IF enable_cts THEN dur.cts + Ticks(SIFS_NS) ELSE 0) + dur.data_ppdu
    IN  [k \in 1..n |-> (IF t_msdu_arrival[k] < t_msdu_generated[k]
                         THEN t_msdu_arrival[k] ELSE t_msdu_generated[k]) - back]

\* The latency offsets of lines 401-409 (and 546-554): generated times are
\* moved by the least latency when it is negative, then by the self-CTS and
\* the data PPDU durations.
shift_generated(t_msdu_generated, t_msdu_arrival, dur, enable_cts) ==
    LET n == Len(t_msdu_arrival)
        latency == [k \in 1..n |-> t_msdu_arrival[k] - t_msdu_generated[k]]
        _min == CHOOSE v \in {latency[k] : k \in 1..n} :
                    \A k \in 1..n : v <= latency[k]
        moved == IF _min < 0 THEN _min ELSE 0
        back == (IF enable_cts THEN dur.cts + Ticks(SIFS_NS) ELSE 0) + dur.data_ppdu
    IN  [k \in 1..n |-> t_msdu_generated[k] + moved - back]

\* tx: the TX timeslots in the order of the walk over CH, BI and SP-DATA.
\* horizon: bi_duration * num_of_observed_bi in ns.
descriptive_calc_performance_metrics(tx, total_data_blocks, num_of_msdu_in_psdu, msdu_length_bytes, horizon, dur, enable_cts) ==
    LET num_of_msdu == total_data_blocks * num_of_msdu_in_psdu
        throughput == [bits |-> num_of_msdu * msdu_length_bytes * 8, ns |-> horizon]
        \* what an exception leaves behind: the throughput of line 366 and,
        \* once line 372 is passed, arrays of num_of_msdu zeros
        failed(err, zeros) == [err |-> err, throughput |-> throughput,
                               arrays_set |-> zeros >= 0,
                               t_msdu_generated |-> [k \in 1..zeros |-> 0],
                               t_msdu_arrival |-> [k \in 1..zeros |-> 0],
                               sample_bi |-> << >>]
        msdu_generation_period == Ticks(horizon) \div num_of_msdu
        frame(k) == ((k - 1) \div num_of_msdu_in_psdu) + 1
        generated == [k \in 1..num_of_msdu |-> (k - 1) * msdu_generation_period]
        arrival == [k \in 1..num_of_msdu |->
                       IF frame(k) <= Len(tx) THEN tx[frame(k)].arrival ELSE 0]
        sample_bi == [k \in 1..num_of_msdu |->
                         IF frame(k) <= Len(tx) THEN tx[frame(k)].bi ELSE -1]
    IN  IF num_of_msdu < 0 THEN failed(ValueError, -1)
        ELSE IF num_of_msdu = 0 THEN failed(ZeroDivisionError, 0)
        ELSE IF Len(tx) > total_data_blocks
             THEN failed(IF num_of_msdu_in_psdu = 1 THEN IndexError ELSE ValueError,
                         num_of_msdu)
        ELSE [err |-> "", throughput |-> throughput, arrays_set |-> TRUE,
              t_msdu_generated |-> shift_generated(generated, arrival, dur, enable_cts),
              t_msdu_arrival |-> arrival, sample_bi |-> sample_bi]

(***************************************************************************)
(* core/inOutStudy.py : FastInOutStudy.run and calc_performance_metrics    *)
(***************************************************************************)
InsufficientPerUserAllocation == "Negative user DATA-SP duration."

\* np.unique(num_of_data_allocations, return_index=True): index (1-based)
\* of the first beacon interval with num_of_alloc allocations
unique_idx(num_of_data_allocations, num_of_alloc) ==
    CHOOSE j \in 1..Len(num_of_data_allocations) :
        /\ num_of_data_allocations[j] = num_of_alloc
        /\ \A l \in 1..(j - 1) : num_of_data_allocations[l] # num_of_alloc

\* lines 485-492: the DATA-SP of a beacon interval with num_of_alloc
\* allocations, as <<start, end>> relative to the start of the interval
fast_data_sp(begin, end, num_of_alloc, dur) ==
    LET step == (end - begin) \div num_of_alloc
        point(k) == k * step + begin
    IN  [k \in 1..num_of_alloc |->
            <<IF k = 1 THEN begin ELSE point(k - 1) + (dur.bft \div 2) + dur.guard,
              IF k = num_of_alloc THEN end ELSE point(k) - (dur.bft \div 2) - dur.guard>>]

\* np.arange counting down from the last value to the first.
np_arange_descending(first, last, period) ==
    IF last <= first THEN << >>
    ELSE LET n == CeilDiv(last - first, period)
         IN  [j \in 1..n |-> first + (n - j) * period]

\* np.arange(first, last, period)
np_arange(first, last, period) ==
    IF last <= first THEN << >>
    ELSE [j \in 1..CeilDiv(last - first, period) |-> first + (j - 1) * period]

\* np.repeat that leaves the array as it is.
np_repeat_once(arr, times) == arr

np_repeat(arr, times) ==
    [k \in 1..(Len(arr) * times) |-> arr[((k - 1) \div times) + 1]]

\* fast_sp_arrivals with an end of the DATA-SP that is never shortened.
fast_sp_arrivals_single_user(ds, num_of_users, first_psdu_arrival_offset, psdu_arrival_period, num_of_msdu_per_psdu, dur) ==
    [err |-> "",
     arrival |-> np_repeat(np_arange(ds[1] + first_psdu_arrival_offset, ds[2],
                                     psdu_arrival_period), num_of_msdu_per_psdu)]

\* lines 500-516 for one DATA-SP ds: the error raised ("" when none) and
\* the arrival times within the DATA-SP
fast_sp_arrivals(ds, num_of_users, first_psdu_arrival_offset, psdu_arrival_period, num_of_msdu_per_psdu, dur) ==
    LET first_msdu_arrival == ds[1] + first_psdu_arrival_offset
        multi_user_shortening ==
            (((ds[2] - ds[1]) * (num_of_users - 1)) \div num_of_users) + (dur.guard \div 2)
        last_possible_msdu_arrival ==
            IF num_of_users > 1 THEN ds[2] - multi_user_shortening ELSE ds[2]
    IN  IF num_of_users > 1 /\ last_possible_msdu_arrival < first_msdu_arrival
        THEN [err |-> InsufficientPerUserAllocation, arrival |-> << >>]
        ELSE [err |-> "",
              arrival |-> np_repeat(np_arange(first_msdu_arrival, last_possible_msdu_arrival,
                                              psdu_arrival_period), num_of_msdu_per_psdu)]

RECURSIVE fast_bi_arrivals(_, _, _, _, _, _, _, _)
fast_bi_arrivals(k, data_sp, num_of_users, first_psdu_arrival_offset, psdu_arrival_period, num_of_msdu_per_psdu, dur, t_msdu_arrival) ==
    IF k > Len(data_sp) THEN [err |-> "", arrival |-> t_msdu_arrival]
    ELSE LET r == fast_sp_arrivals(data_sp[k], num_of_users, first_psdu_arrival_offset,
                                   psdu_arrival_period, num_of_msdu_per_psdu, dur)
         IN  IF r.err # "" THEN r
             ELSE fast_bi_arrivals(k + 1, data_sp, num_of_users, first_psdu_arrival_offset,
                                   psdu_arrival_period, num_of_msdu_per_psdu, dur,
                                   t_msdu_arrival \o r.arrival)

RECURSIVE Flatten(_)
Flatten(seqs) == IF seqs = << >> THEN << >> ELSE Head(seqs) \o Flatten(Tail(seqs))

\* lines 459-535.  begin: the array get_bti_duration returns, after the
\* guard time has been added to it in place.
fast_run(begin, bi_duration, num_of_data_allocations, num_of_users, num_of_msdu_per_psdu, dur, enable_cts, enable_ack) ==
    LET end == Ticks(bi_duration) - dur.guard
        psdu_arrival_period ==
            (IF enable_cts THEN dur.cts + Ticks(SIFS_NS) ELSE 0) + dur.data_ppdu
            + (IF enable_ack THEN Ticks(SIFS_NS) + dur.ack ELSE 0) + Ticks(DIFS_NS)
        first_psdu_arrival_offset ==
            (IF enable_cts THEN dur.cts + Ticks(SIFS_NS) ELSE 0) + dur.data_ppdu
        n == Len(num_of_data_allocations)
        rel(num_of_alloc) ==
            fast_bi_arrivals(1,
                fast_data_sp(begin[unique_idx(num_of_data_allocations, num_of_alloc)],
                             end, num_of_alloc, dur),
                num_of_users, first_psdu_arrival_offset, psdu_arrival_period,
                num_of_msdu_per_psdu, dur, << >>)
        t_msdu_arrival_rel == [j \in 1..n |-> rel(num_of_data_allocations[j])]
        errors == {num_of_data_allocations[j] : j \in {l \in 1..n : t_msdu_arrival_rel[l].err # ""}}
        first_error == CHOOSE a \in errors : \A b \in errors : a <= b
    IN  IF errors # {}
        THEN [err |-> rel(first_error).err, data_sp |-> << >>,
              t_msdu_arrival |-> << >>, sample_bi |-> << >>]
        ELSE [err |-> "",
              data_sp |-> [j \in 1..n |->
                  fast_data_sp(begin[unique_idx(num_of_data_allocations,
                                                num_of_data_allocations[j])],
                               end, num_of_data_allocations[j], dur)],
              t_msdu_arrival |-> Flatten([j \in 1..n |->
                  [k \in 1..Len(t_msdu_arrival_rel[j].arrival) |->
                      t_msdu_arrival_rel[j].arrival[k] + (j - 1) * Ticks(bi_duration)]]),
              sample_bi |-> Flatten([j \in 1..n |->
                  [k \in 1..Len(t_msdu_arrival_rel[j].arrival) |-> j - 1]])]

fast_calc_performance_metrics(t_msdu_arrival, sample_bi, msdu_length_bytes, horizon, dur, enable_cts) ==
    LET num_of_msdu == Len(t_msdu_arrival)
        throughput == [bits |-> num_of_msdu * msdu_length_bytes * 8, ns |-> horizon]
        step == Ticks(horizon) \div num_of_msdu
        generated == [k \in 1..num_of_msdu |-> (k - 1) * step]
    IN  IF num_of_msdu = 0
        THEN [err |-> ValueError, throughput |-> throughput, arrays_set |-> TRUE,
              t_msdu_generated |-> << >>,
              t_msdu_arrival |-> t_msdu_arrival, sample_bi |-> sample_bi]
        ELSE [err |-> "", throughput |-> throughput, arrays_set |-> TRUE,
              t_msdu_generated |-> shift_generated(generated, t_msdu_arrival, dur, enable_cts),
              t_msdu_arrival |-> t_msdu_arrival, sample_bi |-> sample_bi]

(***************************************************************************)
(* core/inOutStudy.py and StudyExecutorDynamicDb.simulate_single : one     *)
(* study, set up in the order of simulate_single, run, and its result put  *)
(* on the queue.  The beacon interval and the beamforming period are       *)
(* multiples of BiUnit nanoseconds; the beamforming scheduler is applied   *)
(* to the multiples (the quotient bi_duration / bft_period and the         *)
(* comparison with the horizon are those of the values in nanoseconds).    *)
(* The number of A-MPDU subframes that calc_max_a_mpdu_subframes reads     *)
(* off the MCS table is an input.                                          *)
(***************************************************************************)
RunBiDurations == {150000, 300000}
BiUnit == CHOOSE u \in RunBiDurations : \A v \in RunBiDurations : v % u = 0
\* <<num_of_ue_antennas, num_of_antenna_sectors, enalbe_sls, enable_r_txss>>
BftConfigs == {<<1, 12, FALSE, TRUE>>, <<1, 32, FALSE, TRUE>>, <<1, 28, TRUE, TRUE>>}
MsduLengths == {3000}
MaxMpduSubframes == {2}

\* single_config of simulate_single, past the choice of the MCS
SingleConfigs(num_of_observed_bi, bi_units) ==
    [num_of_users : 1..MaxRunUsers,
     bft : BftConfigs,
     bft_units : 1..(num_of_observed_bi * bi_units + 1),
     msdu_length_bytes : MsduLengths,
     msdu_max_agg : BOOLEAN,
     mpdu_max_agg : BOOLEAN,
     max_a_mpdu_subframes : MaxMpduSubframes,
     mcs : {CHOOSE row \in McsRows : row[1] = 1},
     self_cts : BOOLEAN,
     ack : BOOLEAN]

NoResult == [status |-> "none"]

\* The study object after __init__; an attribute that no method has assigned
\* yet is absent (or holds a placeholder that nothing reads).
InOutStudy(strategy, bi_duration, num_of_observed_bi, single_config) ==
    [strategy |-> strategy,
     single_config |-> single_config,
     bi_units |-> bi_duration \div BiUnit,
     bi_duration |-> bi_duration,
     num_of_observed_bi |-> num_of_observed_bi,
     num_of_users |-> 0,
     num_of_bft_allocations |-> << >>,
     num_of_data_allocations |-> << >>,
     msdu_length_bytes |-> 0,
     num_of_a_msdu_subframes |-> 0,
     mpdu_length_bytes |-> 0,
     num_of_a_mpdu_subframes |-> 0,
     psdu_length_bytes |-> 0,
     enable_cts |-> FALSE,
     enable_ack |-> FALSE,
     i |-> 0,
     bti_read |-> << >>,
     ch_at |-> << >>,
     total_data_blocks |-> 0,
     tx |-> << >>,
     data_sp |-> << >>,
     sample_bi |-> << >>,
     bi_children |-> << >>,
     err_at |-> "",
     t_msdu_arrival |-> IsAbsent,
     t_msdu_generated |-> IsAbsent,
     throughput |-> IsAbsent,
     err |-> "",
     res |-> NoResult,
     pc |-> "set_num_of_users"]

InitRun ==
    /\ \E strategy \in {"descriptive", "fast"} : \E bi_duration \in RunBiDurations :
         \E num_of_observed_bi \in 1..MaxRunBi :
           \E single_config \in SingleConfigs(num_of_observed_bi, bi_duration \div BiUnit) :
            study = InOutStudy(strategy, bi_duration, num_of_observed_bi, single_config)
    /\ dg = generate_cts_duration(DurationGenerator)
    /\ got = NoGot
    /\ parent = [id |-> 0, timestamp |-> 0, duration |-> 0]
    /\ available_time = << >>
    /\ children = << >>
    /\ call = NoCall
    /\ ncalls = 0
    /\ tiling = {}
    /\ tiles = {}
    /\ bft_args = NoArgs
    /\ bft_ret = NoReturn
    /\ helper = NoHelper
    /\ sweep = NoSweep

Step(op, d, st) ==
    /\ dg' = d
    /\ study' = st
    /\ got' = [op |-> op, name |-> "", err |-> "", value |-> << >>]
    /\ UNCHANGED <<alloc_vars, tile_vars, bft_vars, more_vars>>

set_num_of_users ==
    /\ study.pc = "set_num_of_users"
    /\ Step("set_num_of_users", dg,
            [study EXCEPT !.num_of_users = study.single_config.num_of_users,
                          !.pc = "set_bft_duration"])

set_bft_duration ==
    /\ study.pc = "set_bft_duration"
    /\ LET c == study.single_config.bft
       IN  Step("set_bft_duration",
                generate_bft_duration(dg, c[1], c[2], 1, c[2], c[3], c[4]),
                [study EXCEPT !.pc = "set_num_of_data_sp_allocations"])

\* The allocation counts for the index rnd that np.random.randint returns.
num_of_bft_allocations_for(st, rnd) ==
    get_number_of_bft_allocations(st.num_of_observed_bi, st.bi_units,
        st.single_config.bft_units, st.num_of_users, rnd).multi_user

set_num_of_data_sp_allocations ==
    /\ study.pc = "set_num_of_data_sp_allocations"
    /\ \E rnd \in 0..(study.num_of_observed_bi - 1) :
         LET fallback == study.single_config.bft_units
                             > study.num_of_observed_bi * study.bi_units
             r == num_of_bft_allocations_for(study, rnd)
         IN  /\ fallback \/ rnd = 0
             /\ Step("set_num_of_data_sp_allocations", dg,
                     [study EXCEPT
                        !.num_of_bft_allocations = r,
                        !.num_of_data_allocations = [j \in 1..Len(r) |-> r[j] + 1],
                        !.pc = "set_mpdu_length"])

\* calc_a_msdu_length raises outside the try blocks of simulate_single.
set_mpdu_length ==
    /\ study.pc = "set_mpdu_length"
    /\ LET msdu_length_bytes == study.single_config.msdu_length_bytes
           num_of_a_msdu_subframes ==
               IF study.single_config.msdu_max_agg
               THEN MAX_A_MSDU_LENGTH \div msdu_length_bytes ELSE 1
           a_msdu == calc_a_msdu_length(num_of_a_msdu_subframes, msdu_length_bytes)
       IN  Step("set_mpdu_length", dg,
                IF a_msdu.err # ""
                THEN [study EXCEPT !.msdu_length_bytes = msdu_length_bytes,
                                   !.num_of_a_msdu_subframes = num_of_a_msdu_subframes,
                                   !.err = a_msdu.err, !.pc = "raised"]
                ELSE [study EXCEPT !.msdu_length_bytes = msdu_length_bytes,
                                   !.num_of_a_msdu_subframes = num_of_a_msdu_subframes,
                                   !.mpdu_length_bytes = calc_data_mpdu_length(a_msdu.value),
                                   !.pc = "set_psdu_length"])

set_psdu_length ==
    /\ study.pc = "set_psdu_length"
    /\ LET num_of_a_mpdu_subframes ==
               IF study.single_config.mpdu_max_agg
               THEN study.single_config.max_a_mpdu_subframes ELSE 1
       IN  Step("set_psdu_length", dg,
                [study EXCEPT
                   !.num_of_a_mpdu_subframes = num_of_a_mpdu_subframes,
                   !.psdu_length_bytes =
                       calc_a_mpdu_length(num_of_a_mpdu_subframes, study.mpdu_length_bytes),
                   !.pc = "set_ack_duration"])

set_ack_duration ==
    /\ study.pc = "set_ack_duration"
    /\ Step("set_ack_duration", generate_ack_duration(dg, study.num_of_a_mpdu_subframes),
            [study EXCEPT !.pc = "set_data_ppdu_duration"])

set_data_ppdu_duration ==
    /\ study.pc = "set_data_ppdu_duration"
    /\ Step("set_data_ppdu_duration",
            generate_data_ppdu_duration(dg, study.psdu_length_bytes, study.single_config.mcs),
            [study EXCEPT !.pc = "set_data_with_overhead_duration"])

set_data_with_overhead_duration ==
    /\ study.pc = "set_data_with_overhead_duration"
    /\ LET r == generate_data_with_overhead_duration(dg, study.single_config.self_cts,
                                                     study.single_config.ack)
       IN  Step("set_data_with_overhead_duration", r.dg,
                [study EXCEPT !.pc = "set_enabled_flags"])

\* set_cts_enabled_flag and set_ack_enabled_flag
set_enabled_flags ==
    /\ study.pc = "set_enabled_flags"
    /\ Step("set_enabled_flags", dg,
            [study EXCEPT !.enable_cts = study.single_config.self_cts,
                          !.enable_ack = study.single_config.ack,
                          !.pc = "run"])

\* FastInOutStudy.run, lines 453-456: the two generate_ calls at its top.
FastInOutStudy_run ==
    /\ study.pc = "run"
    /\ study.strategy = "fast"
    /\ LET d1 == generate_guard_time_duration(dg, study.bi_duration)
           d2 == generate_bti_duration(d1, study.num_of_data_allocations)
       IN  Step("run", d2, [study EXCEPT !.pc = "fast_schedule"])

\* The array get_bti_duration returns, with the guard time added in place
\* (lines 459-460: begin is the stored array itself).
begin_in_place(d) ==
    [d EXCEPT !.bti_duration =
        IsSet([j \in 1..Len(d.bti_duration.value) |->
                  d.bti_duration.value[j] + d.guard_time_duration.value[1]])]

\* FastInOutStudy.run, lines 459-535.
FastInOutStudy_run_schedule ==
    /\ study.pc = "fast_schedule"
    /\ LET d == begin_in_place(dg)
           begin == [j \in 1..Len(d.bti_duration.value) |-> Ticks(d.bti_duration.value[j])]
           r == fast_run(begin, study.bi_duration, study.num_of_data_allocations,
                         study.num_of_users,
                         study.num_of_a_msdu_subframes * study.num_of_a_mpdu_subframes,
                         Durations(d), study.enable_cts, study.enable_ack)
       IN  Step("run_schedule", d,
                IF r.err # ""
                THEN [study EXCEPT !.bti_read = d.bti_duration.value,
                                   !.err = r.err, !.pc = "run_failed"]
                ELSE [study EXCEPT !.bti_read = d.bti_duration.value,
                                   !.data_sp = r.data_sp,
                                   !.t_msdu_arrival = IsSet(r.t_msdu_arrival),
                                   !.sample_bi = r.sample_bi,
                                   !.pc = "calc_performance_metrics"])

\* DescriptiveInOutStudy.run up to its loop over the beacon intervals.
DescriptiveInOutStudy_run ==
    /\ study.pc = "run"
    /\ study.strategy = "descriptive"
    /\ Step("run", generate_guard_time_duration(dg, study.bi_duration),
            [study EXCEPT
               !.ch_at = AvailableTime(0, Ticks(study.num_of_observed_bi * study.bi_duration)),
               !.total_data_blocks = 0,
               !.i = 0,
               !.pc = "bi"])

\* One pass of the loop of DescriptiveInOutStudy.run, for beacon interval
\* study.i: the BTI duration is generated from the interval's number of data
\* allocations and read back for the BTI timeslot; then the timeslots of the
\* interval are added.
DescriptiveInOutStudy_run_bi ==
    /\ study.pc = "bi"
    /\ LET noa == study.num_of_data_allocations[study.i + 1]
           d == generate_bti_duration(dg, <<noa>>)
           bti == get_duration(d, "bti_duration").value
           last == study.i + 1 = study.num_of_observed_bi
           r == descriptive_bi(study.i, study.bi_duration,
                               study.num_of_bft_allocations[study.i + 1], Ticks(bti[1]),
                               Durations(d), study.enable_cts, study.enable_ack,
                               study.ch_at, study.total_data_blocks, study.tx)
       IN  Step("run_bi", d,
                IF r.err # ""
                THEN [study EXCEPT !.bti_read = bti, !.err = r.err, !.err_at = r.err_at,
                                   !.pc = "run_failed"]
                ELSE [study EXCEPT
                        !.bti_read = bti,
                        !.ch_at = r.ch_at,
                        !.bi_children = study.bi_children \o r.bi,
                        !.total_data_blocks = r.total_data_blocks,
                        !.tx = r.tx,
                        !.i = IF last THEN study.i ELSE study.i + 1,
                        !.pc = IF last THEN "calc_performance_metrics" ELSE "bi"])

\* calc_performance_metrics of the strategy; it is called outside the try
\* blocks of simulate_single.
calc_performance_metrics ==
    /\ study.pc = "calc_performance_metrics"
    /\ LET horizon == study.bi_duration * study.num_of_observed_bi
           r == IF study.strategy = "descriptive"
                THEN descriptive_calc_performance_metrics(study.tx, study.total_data_blocks,
                         study.num_of_a_mpdu_subframes * study.num_of_a_msdu_subframes,
                         study.msdu_length_bytes, horizon, Durations(dg), study.enable_cts)
                ELSE fast_calc_performance_metrics(study.t_msdu_arrival.value, study.sample_bi,
                         study.msdu_length_bytes, horizon, Durations(dg), study.enable_cts)
       IN  Step("calc_performance_metrics", dg,
                IF r.err # ""
                THEN [study EXCEPT
                        !.throughput = IsSet(r.throughput),
                        !.t_msdu_generated = IF r.arrays_set THEN IsSet(r.t_msdu_generated)
                                             ELSE IsAbsent,
                        !.t_msdu_arrival = IF r.arrays_set THEN IsSet(r.t_msdu_arrival)
                                           ELSE IsAbsent,
                        !.err = r.err, !.pc = "raised"]
                ELSE [study EXCEPT
                        !.throughput = IsSet(r.throughput),
                        !.t_msdu_generated = IsSet(r.t_msdu_generated),
                        !.t_msdu_arrival = IsSet(r.t_msdu_arrival),
                        !.sample_bi = r.sample_bi,
                        !.pc = "put_result"])

\* simulate_single with an except clause that records the failed run as a
\* run that went well.
simulate_single_run_swallowed ==
    /\ study.pc = "run_failed"
    /\ Step("simulate_single", dg,
            [study EXCEPT !.res = [status |-> "0", mcs |-> study.single_config.mcs,
                                   throughput |-> [bits |-> 0, ns |-> study.bi_duration
                                                                    * study.num_of_observed_bi],
                                   msdu_latency |-> << >>,
                                   t_msdu_generated |-> << >>, t_msdu_arrival |-> << >>],
                          !.pc = "returned"])

\* simulate_single, lines 241-249: run() raised.
simulate_single_run_failed ==
    /\ study.pc = "run_failed"
    /\ Step("simulate_single", dg,
            [study EXCEPT !.res = [status |-> "-1", mcs |-> 0, throughput |-> 0,
                                   msdu_latency |-> 0,
                                   t_msdu_generated |-> << >>, t_msdu_arrival |-> << >>],
                          !.pc = "returned"])

\* simulate_single, lines 253-285: the result of a study that ran.
simulate_single_put_result ==
    /\ study.pc = "put_result"
    /\ Step("simulate_single", dg,
            [study EXCEPT !.res = [status |-> "0", mcs |-> study.single_config.mcs,
                                   throughput |-> study.throughput.value,
                                   msdu_latency |->
                                       [k \in 1..Len(study.t_msdu_arrival.value) |->
                                           study.t_msdu_arrival.value[k]
                                           - study.t_msdu_generated.value[k]],
                                   t_msdu_generated |-> study.t_msdu_generated.value,
                                   t_msdu_arrival |-> study.t_msdu_arrival.value],
                          !.pc = "returned"])

NextRun ==
    \/ set_num_of_users
    \/ set_bft_duration
    \/ set_num_of_data_sp_allocations
    \/ set_mpdu_length
    \/ set_psdu_length
    \/ set_ack_duration
    \/ set_data_ppdu_duration
    \/ set_data_with_overhead_duration
    \/ set_enabled_flags
    \/ FastInOutStudy_run
    \/ FastInOutStudy_run_schedule
    \/ DescriptiveInOutStudy_run
    \/ DescriptiveInOutStudy_run_bi
    \/ calc_performance_metrics
    \/ simulate_single_run_failed
    \/ simulate_single_put_result

SpecRun == InitRun /\ [][NextRun]_vars

(***************************************************************************)
(* A whole run and its metrics as a function of the study as set up (st),  *)
(* its durations (d) and the beamforming allocation counts: the steps of   *)
(* SpecRun from run() to calc_performance_metrics, composed.               *)
(***************************************************************************)
RECURSIVE descriptive_run_from(_, _, _, _, _, _, _)
descriptive_run_from(i, st, dur, num_of_bft_allocations, ch_at, total_data_blocks, tx) ==
    IF i >= st.num_of_observed_bi
    THEN [err |-> "", total_data_blocks |-> total_data_blocks, tx |-> tx]
    ELSE LET r == descriptive_bi(i, st.bi_duration, num_of_bft_allocations[i + 1],
                                 Ticks(bti_duration_for(num_of_bft_allocations[i + 1] + 1)),
                                 dur, st.enable_cts, st.enable_ack, ch_at, total_data_blocks, tx)
         IN  IF r.err # ""
             THEN [err |-> r.err, total_data_blocks |-> total_data_blocks, tx |-> tx]
             ELSE descriptive_run_from(i + 1, st, dur, num_of_bft_allocations,
                                       r.ch_at, r.total_data_blocks, r.tx)

run_and_calc(strategy, st, d, num_of_bft_allocations) ==
    LET with_guard == generate_guard_time_duration(d, st.bi_duration)
        dur == Durations(with_guard)
        horizon == st.bi_duration * st.num_of_observed_bi
        num_of_msdu_in_psdu == st.num_of_a_mpdu_subframes * st.num_of_a_msdu_subframes
        n == Len(num_of_bft_allocations)
        num_of_data_allocations == [j \in 1..n |-> num_of_bft_allocations[j] + 1]
        failed(phase, err) == [phase |-> phase, err |-> err, throughput |-> << >>,
                               t_msdu_generated |-> << >>, t_msdu_arrival |-> << >>]
        done(m) == IF m.err # "" THEN failed("calc_performance_metrics", m.err)
                   ELSE [phase |-> "", err |-> "", throughput |-> m.throughput,
                         t_msdu_generated |-> m.t_msdu_generated,
                         t_msdu_arrival |-> m.t_msdu_arrival]
    IN  IF strategy = "descriptive"
        THEN LET r == descriptive_run_from(0, st, dur, num_of_bft_allocations,
                          AvailableTime(0, Ticks(horizon)), 0, << >>)
             IN  IF r.err # "" THEN failed("run", r.err)
                 ELSE done(descriptive_calc_performance_metrics(r.tx, r.total_data_blocks,
                               num_of_msdu_in_psdu, st.msdu_length_bytes, horizon, dur,
                               st.enable_cts))
        ELSE LET begin == [j \in 1..n |->
                              Ticks(bti_duration_for(num_of_data_allocations[j])) + dur.guard]
                 r == fast_run(begin, st.bi_duration, num_of_data_allocations,
                               st.num_of_users, num_of_msdu_in_psdu, dur,
                               st.enable_cts, st.enable_ack)
             IN  IF r.err # "" THEN failed("run", r.err)
                 ELSE done(fast_calc_performance_metrics(r.t_msdu_arrival, r.sample_bi,
                               st.msdu_length_bytes, horizon, dur, st.enable_cts))

(***************************************************************************)
(* core/studyExecutor.py : StudyExecutorDynamicDb.begin_execution, the     *)
(* workers of its pool and the Librarian.  A single configuration has an   *)
(* Eb_N0 and an allowed_err, which set_mcs looks up in the BER table, and  *)
(* the way the rest of simulate_single (lines 205-285) ends for its other  *)
(* parameters: "ok" with the throughput and the latency description of the *)
(* study, "run_fails" in the except clause of ios.run(), or "raises" with  *)
(* an exception that no try block of simulate_single holds (as that of     *)
(* set_mpdu_length or of calc_performance_metrics).                        *)
(***************************************************************************)
write_frequency == 100000

SweepBer == [e \in EbN0Index |-> [i \in 1..NumMcs |-> IF i = 1 THEN 4 ELSE 40]]
AllowedErrs == {Pow10(BerDigits - 3), Pow10(BerDigits - 2)}
OtherParameters ==
    {[ends |-> "ok", throughput |-> 48000, msdu_latency |-> 7],
     [ends |-> "run_fails", throughput |-> 0, msdu_latency |-> 0],
     [ends |-> "raises", throughput |-> 0, msdu_latency |-> 0]}

\* The lists of 1 .. MaxConfigValues values of a set.
ListsOf(S) == UNION {[1..n -> S] : n \in 1..MaxConfigValues}

\* list(itertools.product(allowed_err, others)), Eb_N0 being a single value
config_product(config) ==
    LET na == Len(config.allowed_err)
        no == Len(config.others)
    IN  [k \in 1..(na * no) |->
            [Eb_N0 |-> config.Eb_N0,
             allowed_err |-> config.allowed_err[((k - 1) \div no) + 1],
             others |-> config.others[((k - 1) % no) + 1]]]

Kill == [type |-> "kill"]
Res(pid, single_config, status, mcs, throughput, msdu_latency) ==
    [type |-> "res", pid |-> pid, config |-> single_config, status |-> status,
     mcs |-> mcs, throughput |-> throughput, msdu_latency |-> msdu_latency]

\* simulate_single without the try block around set_mcs.
simulate_single_set_mcs_uncaught(pid, single_config, ber) ==
    LET r == get_optimal_mcs(single_config.Eb_N0, single_config.allowed_err, ber)
    IN  IF r.err # "" \/ single_config.others.ends = "raises"
        THEN [state |-> "raised", value |-> 0, put |-> << >>]
        ELSE IF single_config.others.ends = "run_fails"
        THEN [state |-> "returned", value |-> -1,
              put |-> <<Res(pid, single_config, "-1", 0, 0, 0)>>]
        ELSE [state |-> "returned", value |-> 0,
              put |-> <<Res(pid, single_config, "0", r.mcs, single_config.others.throughput,
                            single_config.others.msdu_latency)>>]

\* simulate_single: how the job ends (its return value, or an exception that
\* job.get() raises again) and what it puts on the queue.
simulate_single(pid, single_config, ber) ==
    LET r == get_optimal_mcs(single_config.Eb_N0, single_config.allowed_err, ber)
    IN  IF r.err # ""
        THEN [state |-> "returned", value |-> -1,
              put |-> <<Res(pid, single_config, "1", 0, 0, 0)>>]
        ELSE IF single_config.others.ends = "raises"
        THEN [state |-> "raised", value |-> 0, put |-> << >>]
        ELSE IF single_config.others.ends = "run_fails"
        THEN [state |-> "returned", value |-> -1,
              put |-> <<Res(pid, single_config, "-1", 0, 0, 0)>>]
        ELSE [state |-> "returned", value |-> 0,
              put |-> <<Res(pid, single_config, "0", r.mcs, single_config.others.throughput,
                            single_config.others.msdu_latency)>>]

NoResult_pid == [type |-> "none"]
Pending == [state |-> "pending", value |-> 0]

\* A study with 1 .. MaxConfigValues allowed error rates and one value of
\* every other parameter.
InitSweep ==
    /\ \E mp_pool_size \in 1..MaxPool :
       \E allowed_err \in ListsOf(AllowedErrs) : \E others \in [1..1 -> OtherParameters] :
          sweep = [pc |-> "begin_execution",
                   mp_pool_size |-> mp_pool_size,
                   config |-> [Eb_N0 |-> 10, allowed_err |-> allowed_err, others |-> others],
                   ber |-> SweepBer,
                   config_iterable |-> << >>,
                   watcher |-> "none",
                   jobs |-> << >>,
                   next |-> 0,
                   q |-> << >>,
                   db |-> << >>,
                   num_of_entries |-> 0,
                   saved |-> FALSE]
    /\ helper = NoHelper
    /\ bft_args = NoArgs
    /\ bft_ret = NoReturn
    /\ parent = [id |-> 0, timestamp |-> 0, duration |-> 0]
    /\ available_time = << >>
    /\ children = << >>
    /\ call = NoCall
    /\ ncalls = 0
    /\ tiling = {}
    /\ tiles = {}
    /\ dg = NoDg
    /\ got = NoGot
    /\ study = NoStudy

SweepStep(sw) ==
    /\ sweep' = sw
    /\ UNCHANGED <<alloc_vars, tile_vars, bft_vars, dg_vars, helper>>

\* begin_execution, lines 111-143: the Librarian with an empty Db, then
\* apply_async of librarian.run and of simulate_single for every combination
begin_execution ==
    /\ sweep.pc = "begin_execution"
    /\ LET config_iterable == config_product(sweep.config)
       IN  SweepStep([sweep EXCEPT
              !.config_iterable = config_iterable,
              !.db = [k \in 1..Len(config_iterable) |-> NoResult_pid],
              !.watcher = "pending",
              !.jobs = [k \in 1..Len(config_iterable) |-> Pending],
              !.next = 1,
              !.pc = "get"])

\* Processes of the pool at work on a task.
Busy ==
    (IF sweep.watcher = "running" THEN 1 ELSE 0)
    + Cardinality({k \in 1..Len(sweep.jobs) : sweep.jobs[k].state = "running"})

\* A free process of the pool takes librarian.run, the first task handed in.
pool_start_watcher ==
    /\ sweep.watcher = "pending"
    /\ Busy < sweep.mp_pool_size
    /\ SweepStep([sweep EXCEPT !.watcher = "running"])

\* A free process of the pool takes the next simulate_single task.
pool_start_job ==
    /\ sweep.watcher \in {"running", "stopped"}
    /\ Busy < sweep.mp_pool_size
    /\ \E k \in 1..Len(sweep.jobs) :
          /\ sweep.jobs[k].state = "pending"
          /\ \A l \in 1..(k - 1) : sweep.jobs[l].state # "pending"
          /\ SweepStep([sweep EXCEPT !.jobs[k].state = "running"])

\* A process of the pool runs simulate_single for pid k - 1 to its end.
worker_simulate_single ==
    \E k \in 1..Len(sweep.jobs) :
        /\ sweep.jobs[k].state = "running"
        /\ LET r == simulate_single(k - 1, sweep.config_iterable[k], sweep.ber)
           IN  SweepStep([sweep EXCEPT
                  !.jobs[k] = [state |-> r.state, value |-> r.value],
                  !.q = sweep.q \o r.put])

\* Librarian.run, one pass of its loop: a message is taken off the queue.
Librarian_run ==
    /\ sweep.watcher = "running"
    /\ sweep.q # << >>
    /\ LET msg == Head(sweep.q)
           num_of_entries == sweep.num_of_entries + 1
       IN  IF msg = Kill
           THEN SweepStep([sweep EXCEPT !.q = Tail(sweep.q), !.saved = TRUE,
                                        !.watcher = "stopped"])
           ELSE SweepStep([sweep EXCEPT
                   !.q = Tail(sweep.q),
                   !.db[msg.pid + 1] = msg,
                   !.num_of_entries = num_of_entries,
                   !.saved = IF num_of_entries % write_frequency = 0 THEN TRUE
                             ELSE sweep.saved])

\* A collection loop that leaves after the first job.
job_get_first_only ==
    /\ sweep.pc = "get"
    /\ sweep.jobs[sweep.next].state \in {"returned", "raised"}
    /\ SweepStep([sweep EXCEPT
          !.next = IF sweep.jobs[sweep.next].state = "raised" THEN sweep.next
                   ELSE sweep.next + 1,
          !.pc = IF sweep.jobs[sweep.next].state = "raised" THEN "aborted"
                 ELSE "put_kill"])

\* begin_execution, lines 145-146: job.get() of the next job, which raises
\* the exception of the worker again.

job_get ==
    /\ sweep.pc = "get"
    /\ sweep.jobs[sweep.next].state \in {"returned", "raised"}
    /\ SweepStep([sweep EXCEPT
          !.next = IF sweep.jobs[sweep.next].state = "raised" THEN sweep.next
                   ELSE sweep.next + 1,
          !.pc = IF sweep.jobs[sweep.next].state = "raised" THEN "aborted"
                 ELSE IF sweep.next = Len(sweep.jobs) THEN "put_kill"
                 ELSE "get"])

\* begin_execution, lines 149-150: q.put('kill') and pool.close()
put_kill ==
    /\ sweep.pc = "put_kill"
    /\ SweepStep([sweep EXCEPT !.q = Append(sweep.q, Kill), !.pc = "join"])

\* begin_execution, line 151: pool.join() returns when every task has ended
pool_join ==
    /\ sweep.pc = "join"
    /\ sweep.watcher = "stopped"
    /\ SweepStep([sweep EXCEPT !.pc = "done"])

NextSweep ==
    \/ begin_execution
    \/ pool_start_watcher
    \/ pool_start_job
    \/ worker_simulate_single
    \/ Librarian_run
    \/ job_get
    \/ put_kill
    \/ pool_join

SpecSweep == InitSweep /\ [][NextSweep]_vars

\* The processes of the pool, the Librarian and the main process all keep
\* running: a step that stays possible is taken in the end.  Nothing more is
\* assumed of the scheduling of the processes.
SweepFairness ==
    /\ WF_vars(begin_execution)
    /\ WF_vars(pool_start_watcher)
    /\ WF_vars(pool_start_job)
    /\ WF_vars(worker_simulate_single)
    /\ WF_vars(Librarian_run)
    /\ WF_vars(job_get)
    /\ WF_vars(put_kill)
    /\ WF_vars(pool_join)

SpecSweepFair == InitSweep /\ [][NextSweep]_vars /\ SweepFairness

(***************************************************************************)

(* Properties of the interval allocator.                                   *)
(***************************************************************************)
Called == call.op # "none"
Succeeded == Called /\ call.err = ""

\* Both end points of [a, b] lie in the range r.
Holds(r, a, b) == r[1] <= a /\ a <= r[2] /\ r[1] <= b /\ b <= r[2]
\* The range r and [a, b] have a point in common.
Meets(r, a, b) == Max(r[1], a) <= Min(r[2], b)
\* Two time ranges share more than a boundary point.
Overlap(a1, b1, a2, b2) == Max(a1, a2) < Min(b1, b2)

ChildStart(c) == c.timestamp
ChildEnd(c) == c.timestamp + c.duration

RECURSIVE FreeLength(_)
FreeLength(at_list) ==
    IF at_list = << >> THEN 0
    ELSE (Head(at_list)[2] - Head(at_list)[1]) + FreeLength(Tail(at_list))

\* Unit cells [t, t+1] of the time axis that lie in some free range.
FreeCells(at_list) ==
    {t \in 0..(TMax - 1) : \E i \in 1..Len(at_list) :
                               at_list[i][1] <= t /\ t + 1 <= at_list[i][2]}

\* C1: after any sequence of allocate / add_child calls the free ranges are
\* sorted by start, pairwise non-overlapping, each with start <= end and each
\* inside the parent's original span.
C1_FreeRangesSortedDisjoint ==
    /\ \A i \in 1..Len(available_time) :
          /\ available_time[i][1] <= available_time[i][2]
          /\ parent.timestamp <= available_time[i][1]
          /\ available_time[i][2] <= parent.timestamp + parent.duration
    /\ \A i \in 1..Len(available_time) : \A j \in 1..Len(available_time) :
          i < j => /\ available_time[i][1] <= available_time[j][1]
                   /\ available_time[i][2] <= available_time[j][1]

\* C2: accepted children never overlap, an add_child that overlaps an accepted
\* child fails, and an accepted child lay within one free range when inserted.
C2_ChildrenNeverOverlap ==
    /\ \A i \in 1..Len(children) : \A j \in 1..Len(children) :
          i < j => ~Overlap(ChildStart(children[i]), ChildEnd(children[i]),
                            ChildStart(children[j]), ChildEnd(children[j]))
    /\ (call.op = "add_child" /\
        \E i \in 1..Len(call.children_before) :
            Overlap(ChildStart(call.children_before[i]), ChildEnd(call.children_before[i]),
                    call.t_start, call.t_end))
       => call.err # ""
    /\ (call.op = "add_child" /\ call.err = "")
       => \E i \in 1..Len(call.before) : Holds(call.before[i], call.t_start, call.t_end)

\* C3 as stated: a call succeeds exactly when some free range fully contains
\* [a, b]; otherwise it fails with OverlappingAllocation when some free range
\* meets [a, b], and with InsufficientTime when none does.
C3_OutcomeByContainment ==
    (Called /\ call.t_start <= call.t_end) =>
       LET a == call.t_start
           b == call.t_end
           contained == \E i \in 1..Len(call.before) : Holds(call.before[i], a, b)
           met == \E i \in 1..Len(call.before) : Meets(call.before[i], a, b)
       IN  /\ (call.err = "") <=> contained
           /\ ~contained => /\ (call.err = OverlappingAllocation) <=> met
                            /\ (call.err = InsufficientTime) <=> ~met

\* Position of the first free range holding t_start or t_end, 0 when none does.
FirstTouched(at_list, a, b) ==
    LET touched == {i \in 1..Len(at_list) :
                       \/ (at_list[i][1] <= a /\ a <= at_list[i][2])
                       \/ (at_list[i][1] <= b /\ b <= at_list[i][2])}
    IN  IF touched = {} THEN 0
        ELSE CHOOSE i \in touched : \A j \in touched : i <= j

\* C3 (amended): the call is decided by the first free range, in list order,
\* that holds t_start or t_end: success exactly when it holds both,
\* OverlappingAllocation exactly when it holds only one, and InsufficientTime
\* exactly when no free range holds either end point.
C3_OutcomeByFirstTouchedRange ==
    Called =>
       LET a == call.t_start
           b == call.t_end
           ft == FirstTouched(call.before, a, b)
       IN  /\ (call.err = "") <=> (ft # 0 /\ Holds(call.before[ft], a, b))
           /\ (call.err = OverlappingAllocation) <=> (ft # 0 /\ ~Holds(call.before[ft], a, b))
           /\ (call.err = InsufficientTime) <=> (ft = 0)

\* A call for a proper range that strictly covers a free range was made and
\* answered with InsufficientTime.
C3_Witness ==
    /\ Called
    /\ call.t_start < call.t_end
    /\ call.err = InsufficientTime
    /\ \E i \in 1..Len(call.before) :
          /\ call.before[i][1] < call.before[i][2]
          /\ call.t_start < call.before[i][1]
          /\ call.before[i][2] < call.t_end

\* C4: once every range of a set that exactly tiles the parent's span has been
\* allocated, in whatever order, each allocation has succeeded and no free
\* range is left.
C4_TilingEmptiesFreeTime ==
    /\ Called => call.err = ""
    /\ tiles = {} => /\ available_time = << >>
                     /\ Len(children) = Cardinality(tiling)

\* A parent covered by at least three tiles, the middle one added first.
C4_Witness ==
    /\ tiles = {}
    /\ Cardinality(tiling) >= 3
    /\ ncalls = Cardinality(tiling)
    /\ children[1].timestamp > parent.timestamp
    /\ children[1].timestamp + children[1].duration < parent.timestamp + parent.duration

\* C5: a call never returns time to the tracker: the free cells after it are
\* among the free cells before it and the total free length has not grown.
C5_FreeTimeShrinks ==
    Called =>
       /\ FreeCells(available_time) \subseteq FreeCells(call.before)
       /\ FreeLength(available_time) <= FreeLength(call.before)

(***************************************************************************)
(* Properties of the beamforming allocation scheduler.                     *)
(***************************************************************************)
Horizon == bft_args.num_of_observed_bi * bft_args.bi_duration
Fallback == bft_args.bft_period > Horizon
BiIndices == 0..(bft_args.num_of_observed_bi - 1)

\* C8: with one user and a period within the horizon, beacon interval i gets
\* floor((i+1)*bi_duration/bft_period) - floor(i*bi_duration/bft_period)
\* allocations, which is the floor or the ceiling of the rate, and the total
\* is floor(horizon / bft_period).
C8_SingleUserRunningCarry ==
    (bft_ret.returned /\ bft_args.num_of_users = 1 /\ ~Fallback) =>
       LET d == bft_args.bi_duration
           p == bft_args.bft_period
           ceil == (d + p - 1) \div p
       IN  /\ \A i \in BiIndices :
                 /\ bft_ret.multi_user[i + 1] = ((i + 1) * d) \div p - (i * d) \div p
                 /\ bft_ret.multi_user[i + 1] \in {d \div p, ceil}
           /\ SeqSum(bft_ret.multi_user) = Horizon \div p

\* The array a call with num_of_users = 1 returns for the same arguments and
\* the same random index.
SingleUserArray ==
    LET rnd == IF \E i \in BiIndices : bft_ret.single_user[i + 1] > 0 /\ Fallback
               THEN CHOOSE i \in BiIndices : bft_ret.single_user[i + 1] > 0
               ELSE 0
    IN  get_number_of_bft_allocations(bft_args.num_of_observed_bi,
            bft_args.bi_duration, bft_args.bft_period, 1, rnd).multi_user

RECURSIVE SumOver(_, _, _)
SumOver(arr, n, offsets) ==
    IF offsets = {} THEN 0
    ELSE LET i == CHOOSE o \in offsets : TRUE
         IN  arr[(i % n) + 1] + SumOver(arr, n, offsets \ {i})

\* C9: with num_of_users = k, entry j of the result is the sum of the
\* single-user entries j, j-1, ..., j-(k-1) taken cyclically, so the total is
\* k times the single-user total, also for k above the number of intervals.
C9_MultiUserIsSumOfCyclicShifts ==
    bft_ret.returned =>
       LET n == bft_args.num_of_observed_bi
           k == bft_args.num_of_users
           single == SingleUserArray
       IN  /\ Len(bft_ret.multi_user) = n
           /\ \A j \in BiIndices :
                 bft_ret.multi_user[j + 1] =
                     SumOver(single, n, {j - i + k * n : i \in 0..(k - 1)})
           /\ SeqSum(bft_ret.multi_user) = k * SeqSum(single)

\* More users than beacon intervals, and a single-user array that is not
\* the same in every interval.
C9_Witness ==
    /\ bft_ret.returned
    /\ bft_args.num_of_users > bft_args.num_of_observed_bi
    /\ bft_args.num_of_observed_bi >= 3
    /\ \E i \in BiIndices : \E j \in BiIndices :
          bft_ret.single_user[i + 1] # bft_ret.single_user[j + 1]
    /\ \E i \in BiIndices : \E j \in BiIndices :
          bft_ret.multi_user[i + 1] # bft_ret.multi_user[j + 1]

\* C10 as stated: a period above the horizon gives one allocation in total,
\* at a single beacon interval, and a notice, whatever num_of_users is.
C10_FallbackOneAllocationTotal ==
    (bft_ret.returned /\ Fallback) =>
       /\ bft_ret.notice
       /\ SeqSum(bft_ret.multi_user) = 1
       /\ Cardinality({i \in BiIndices : bft_ret.multi_user[i + 1] > 0}) = 1

\* C10 (amended): a period above the horizon gives a notice and one
\* allocation per user: the single-user array holds one allocation at one
\* index r of 0..num_of_observed_bi-1, and user i adds one allocation at index
\* (r + i) mod num_of_observed_bi, num_of_users allocations in total.
C10_FallbackOneAllocationPerUser ==
    (bft_ret.returned /\ Fallback) =>
       LET n == bft_args.num_of_observed_bi
           k == bft_args.num_of_users
       IN  /\ bft_ret.notice
           /\ SeqSum(bft_ret.single_user) = 1
           /\ \E r \in BiIndices :
                 /\ bft_ret.single_user[r + 1] = 1
                 /\ \A j \in BiIndices :
                       bft_ret.multi_user[j + 1] =
                           Cardinality({i \in 0..(k - 1) : (r + i) % n = j})
           /\ SeqSum(bft_ret.multi_user) = k

\* The fallback was taken for several users on several beacon intervals.
C10_Witness ==
    /\ bft_ret.returned
    /\ Fallback
    /\ bft_args.num_of_users >= 2
    /\ bft_args.num_of_observed_bi >= 2
    /\ bft_ret.notice

(***************************************************************************)
(* Properties of the duration generator.                                   *)
(***************************************************************************)
\* C6: for every named duration, a get_* before the matching generate_* has
\* run fails with the StateError of check_existence_and_return_duration and
\* returns no value.
C6_GetBeforeGenerateIsStateError ==
    (got.op = "get" /\ ~Generated(dg, got.name)) =>
       /\ got.err = StateError
       /\ got.value = << >>

\* C7 as stated: once a duration has been generated, no later step of the
\* run changes what its getter returns, in both strategies.
C7_DurationsWriteOnce ==
    [][\A name \in DurationNames :
          Generated(dg, name) => dg'[name] = dg[name]]_vars

(***************************************************************************)
(* Properties of a run.                                                    *)
(***************************************************************************)
Finished == study.pc \in {"returned", "raised"}
Succeeded0 == study.pc = "returned" /\ study.res.status = "0"

\* C11: a run is determined by its inputs: whatever index the fallback of
\* the beamforming scheduler draws, a run of the same strategy with the same
\* configuration gives the allocation counts, the generated and arrival
\* times and the throughput of the run that was made.
C11_RunDeterminedByInputs ==
    Succeeded0 =>
        \A rnd \in 0..(study.num_of_observed_bi - 1) :
            LET counts == num_of_bft_allocations_for(study, rnd)
                again == run_and_calc(study.strategy, study, dg, counts)
            IN  /\ counts = study.num_of_bft_allocations
                /\ again.err = ""
                /\ again.t_msdu_generated = study.res.t_msdu_generated
                /\ again.t_msdu_arrival = study.res.t_msdu_arrival
                /\ again.throughput = study.res.throughput

OtherStrategy(strategy) == IF strategy = "fast" THEN "descriptive" ELSE "fast"

\* |a - b| <= 1 % of the larger of a and b
WithinOnePercent(a, b) == 100 * (Max(a, b) - Min(a, b)) <= Max(a, b)

\* C12: on inputs on which both strategies succeed, the throughput of
\* DescriptiveInOutStudy and the throughput of FastInOutStudy differ by at
\* most 1 % (both are bits over the same horizon, so the bits are compared).
C12_StrategiesAgreeWithinOnePercent ==
    Succeeded0 =>
        LET other == run_and_calc(OtherStrategy(study.strategy), study, dg,
                                  study.num_of_bft_allocations)
        IN  other.err = "" =>
                WithinOnePercent(study.res.throughput.bits, other.throughput.bits)

\* Samples k and k+1 of the finished run belong to the same beacon interval.
SameBi(k) == study.sample_bi[k] = study.sample_bi[k + 1]

\* C13: in a finished run of either strategy, consecutive samples of the
\* same beacon interval arrive in non-decreasing order.
C13_ArrivalsOrderedPerBi ==
    Succeeded0 =>
        \A k \in 1..(Len(study.res.t_msdu_arrival) - 1) :
            SameBi(k) => study.res.t_msdu_arrival[k] <= study.res.t_msdu_arrival[k + 1]

\* A finished run over two beacon intervals with two samples at different
\* times in an interval that a BFT allocation splits.
C13_Witness ==
    /\ Succeeded0
    /\ study.num_of_observed_bi >= 2
    /\ Len(study.sample_bi) = Len(study.res.t_msdu_arrival)
    /\ \E k \in 1..(Len(study.res.t_msdu_arrival) - 1) :
           /\ SameBi(k)
           /\ study.num_of_bft_allocations[study.sample_bi[k] + 1] >= 1
           /\ study.res.t_msdu_arrival[k] < study.res.t_msdu_arrival[k + 1]

SchedulingErrors == {InsufficientTime, OverlappingAllocation, InsufficientPerUserAllocation}

\* run() has ended, by returning or by raising.
RunEnded == study.pc \in {"calc_performance_metrics", "run_failed"}

\* Beacon interval j (1-based) has a BFT allocation, and one BFT is longer
\* than what the BTI and the two guard times leave of the interval.
BftLongerThanFreeSpace(j) ==
    /\ study.num_of_bft_allocations[j] >= 1
    /\ Durations(dg).bft > Ticks(study.bi_duration)
                           - Ticks(bti_duration_for(study.num_of_data_allocations[j]))
                           - 2 * Durations(dg).guard

\* C14: when a BFT allocation is longer than the space its beacon interval
\* has left, run() of either strategy raises a scheduling error and returns
\* no schedule.
C14_InconsistentGeometryRaises ==
    (RunEnded /\ \E j \in 1..study.num_of_observed_bi : BftLongerThanFreeSpace(j)) =>
        /\ study.pc = "run_failed"
        /\ study.err \in SchedulingErrors

\* run() raised; the exception is caught by simulate_single.
RunAborted == study.err # "" /\ study.pc \in {"run_failed", "returned"}

\* C15: a run that aborted leaves the study without throughput and without
\* generated and arrival arrays, and its result has a status other than 0,
\* throughput 0 and no latency data; a result of status 0 has a sample for
\* every data unit (generated time, arrival time and latency), at least one,
\* and the throughput of that many data units.
C15_NoPartialResults ==
    /\ RunAborted =>
          /\ study.throughput = IsAbsent
          /\ study.t_msdu_generated = IsAbsent
          /\ study.t_msdu_arrival = IsAbsent
          /\ study.res # NoResult =>
                /\ study.res.status # "0"
                /\ study.res.throughput = 0
                /\ study.res.msdu_latency = 0
                /\ study.res.t_msdu_generated = << >>
                /\ study.res.t_msdu_arrival = << >>
    /\ (study.res # NoResult /\ study.res.status = "0") =>
          /\ Len(study.res.t_msdu_arrival) >= 1
          /\ Len(study.res.t_msdu_generated) = Len(study.res.t_msdu_arrival)
          /\ Len(study.res.msdu_latency) = Len(study.res.t_msdu_arrival)
          /\ study.res.throughput.bits
                = Len(study.res.t_msdu_arrival) * study.msdu_length_bytes * 8
          /\ study.res.mcs = study.single_config.mcs

\* The result of a DescriptiveInOutStudy whose run() raised in a later beacon
\* interval, after TX timeslots had been added in an earlier one.
C15_Witness ==
    /\ study.pc = "returned"
    /\ study.res.status = "-1"
    /\ study.strategy = "descriptive"
    /\ study.err \in SchedulingErrors
    /\ study.tx # << >>

\* The DATA-SP <<s, e>> of beacon interval j (1-based) of the FastInOutStudy,
\* relative to the start of the interval.
DataSpOf(j) ==
    fast_data_sp(Ticks(study.bti_read[j]), Ticks(study.bi_duration) - Durations(dg).guard,
                 study.num_of_data_allocations[j], Durations(dg))

FirstArrivalOffset ==
    (IF study.enable_cts THEN Durations(dg).cts + Ticks(SIFS_NS) ELSE 0)
    + Durations(dg).data_ppdu

ArrivalPeriod ==
    FirstArrivalOffset
    + (IF study.enable_ack THEN Ticks(SIFS_NS) + Durations(dg).ack ELSE 0) + Ticks(DIFS_NS)

\* e - ((e - s) * (1 - 1/num_users) + guard_time / 2) for several users, e for one
UsableEnd(ds) ==
    IF study.num_of_users > 1
    THEN ds[2] - ((((ds[2] - ds[1]) * (study.num_of_users - 1)) \div study.num_of_users)
                  + (Durations(dg).guard \div 2))
    ELSE ds[2]

\* The arrival times s + first_arrival_offset + m * period before the usable
\* end of some DATA-SP of beacon interval j, as absolute times.
ArrivalsBeforeUsableEnd(j) ==
    LET sps == DataSpOf(j)
    IN  {t + (j - 1) * Ticks(study.bi_duration) :
            t \in UNION {{ds[1] + FirstArrivalOffset + m * ArrivalPeriod :
                            m \in 0..Len(study.t_msdu_arrival.value)} \cap
                         (ds[1]..(UsableEnd(ds) - 1)) :
                         ds \in {sps[k] : k \in 1..Len(sps)}}}

\* C16: FastInOutStudy.run raises 'Negative user DATA-SP duration.' exactly
\* when there are several users and the usable end of some DATA-SP lies before
\* its first arrival time; otherwise the arrival times of every beacon
\* interval are those before the usable ends of its DATA-SP, the usable end
\* being the end of the DATA-SP for one user.
C16_MultiUserShortening ==
    (RunEnded /\ study.strategy = "fast") =>
        LET n == study.num_of_observed_bi
            negative == \E j \in 1..n : \E k \in 1..Len(DataSpOf(j)) :
                           UsableEnd(DataSpOf(j)[k]) < DataSpOf(j)[k][1] + FirstArrivalOffset
            arrival == study.t_msdu_arrival.value
        IN  /\ (study.pc = "run_failed") <=> (study.num_of_users > 1 /\ negative)
            /\ study.pc = "run_failed" => study.err = InsufficientPerUserAllocation
            /\ study.pc # "run_failed" =>
                  \A j \in 1..n :
                      {arrival[i] : i \in {l \in 1..Len(arrival) : study.sample_bi[l] = j - 1}}
                          = ArrivalsBeforeUsableEnd(j)

\* A run of several users that raised although one of its DATA-SP, shortened,
\* still has room for an arrival.
C16_Witness ==
    /\ RunEnded
    /\ study.strategy = "fast"
    /\ study.num_of_users > 1
    /\ study.pc = "run_failed"
    /\ study.err = InsufficientPerUserAllocation
    /\ \E j \in 1..study.num_of_observed_bi : \E k \in 1..Len(DataSpOf(j)) :
           UsableEnd(DataSpOf(j)[k]) > DataSpOf(j)[k][1] + FirstArrivalOffset

(***************************************************************************)
(* Properties of the functions of helpers.py.                              *)
(***************************************************************************)
\* The number of decimals of max_BER: BerDigits less its trailing zeros.
DecimalsOf(max_BER) ==
    BerDigits - (CHOOSE t \in 0..BerDigits :
                    /\ max_BER % Pow10(t) = 0
                    /\ t < BerDigits => max_BER % Pow10(t + 1) # 0)

\* The MCS indexes whose BER at Eb_N0, rounded to the decimals of max_BER,
\* is at most max_BER.
Qualifying ==
    {i \in DOMAIN helper.ber[helper.Eb_N0] :
        round(helper.ber[helper.Eb_N0][i], DecimalsOf(helper.max_BER)) <= helper.max_BER}

\* C18: for an Eb_N0 of the table, get_optimal_mcs returns the highest MCS
\* index whose BER, rounded to the decimals of max_BER, is at most max_BER,
\* and raises 'BER unattainable' exactly when there is no such index.
C18_HighestQualifyingScheme ==
    (helper.op = "get_optimal_mcs" /\ helper.Eb_N0 \in DOMAIN helper.ber) =>
        /\ (helper.ret.err = ConstraintUnsatisfiable) <=> (Qualifying = {})
        /\ Qualifying # {} =>
              /\ helper.ret.err = ""
              /\ helper.ret.mcs \in Qualifying
              /\ \A i \in Qualifying : i <= helper.ret.mcs

\* n * (2 + L) + (n - 1) * (L mod 4)
PaddedTotal(n, L) == n * (2 + L) + (n - 1) * (L % 4)

\* C19: calc_a_msdu_length(n, L) returns L when n <= 1; for n > 1 it returns
\* the padded total when that is at most MAX_A_MSDU_LENGTH and raises
\* 'A-MSDU exceeded max size' when it is larger.
C19_AMsduLength ==
    helper.op = "calc_a_msdu_length" =>
        LET n == helper.num_of_subframes
            L == helper.subframe_length
        IN  /\ n <= 1 => helper.ret = [err |-> "", value |-> L]
            /\ (n > 1 /\ PaddedTotal(n, L) <= MAX_A_MSDU_LENGTH) =>
                   helper.ret = [err |-> "", value |-> PaddedTotal(n, L)]
            /\ (n > 1 /\ PaddedTotal(n, L) > MAX_A_MSDU_LENGTH) =>
                   helper.ret.err = SizeExceeded

\* A call with two or more subframes whose padded total is one octet over
\* MAX_A_MSDU_LENGTH, answered with the error (a total of MAX_A_MSDU_LENGTH
\* itself is among the inputs as well, with 2 subframes of 3965 octets).
C19_Witness ==
    /\ helper.op = "calc_a_msdu_length"
    /\ helper.num_of_subframes > 1
    /\ PaddedTotal(helper.num_of_subframes, helper.subframe_length) = MAX_A_MSDU_LENGTH + 1
    /\ helper.ret.err = SizeExceeded

(***************************************************************************)
(* Properties of the arrays of a run.                                      *)
(***************************************************************************)
\* Data units (MSDU) carried in one data frame (PSDU).
UnitsPerFrame == study.num_of_a_msdu_subframes * study.num_of_a_mpdu_subframes

\* The data frames of the run: the TX timeslots of the DescriptiveInOutStudy,
\* the arrival times before the usable ends of the DATA-SP of the
\* FastInOutStudy.
NumOfFrames ==
    IF study.strategy = "descriptive" THEN Len(study.tx)
    ELSE Cardinality(UNION {ArrivalsBeforeUsableEnd(j) : j \in 1..study.num_of_observed_bi})

\* C20: after a run and its calc_performance_metrics, in both strategies, the
\* generated and the arrival times are arrays of one length, the number of
\* data frames times the data units of a frame, and the data units of one
\* frame have one arrival time.
C20_ArraysPerDataUnit ==
    Succeeded0 =>
        LET arrival == study.t_msdu_arrival.value
            generated == study.t_msdu_generated.value
        IN  /\ Len(generated) = Len(arrival)
            /\ Len(arrival) = NumOfFrames * UnitsPerFrame
            /\ \A f \in 1..NumOfFrames : \A u \in 1..UnitsPerFrame :
                   arrival[(f - 1) * UnitsPerFrame + u] = arrival[(f - 1) * UnitsPerFrame + 1]

\* A finished run with aggregation: at least two data frames of at least two
\* data units.
C20_Witness ==
    /\ Succeeded0
    /\ UnitsPerFrame >= 2
    /\ NumOfFrames >= 2
    /\ Len(study.t_msdu_arrival.value) >= 4

(***************************************************************************)
(* Properties of a study execution.                                        *)
(***************************************************************************)
\* set_mcs raises for combination k (pid k - 1).
SchemeSelectionFails(k) ==
    get_optimal_mcs(sweep.config_iterable[k].Eb_N0, sweep.config_iterable[k].allowed_err,
                    sweep.ber).err = ConstraintUnsatisfiable

\* The results of pid k - 1 on the queue or in the Db.
ResultsOf(k) ==
    {sweep.q[j] : j \in {l \in 1..Len(sweep.q) : sweep.q[l] # Kill /\ sweep.q[l].pid = k - 1}}
    \cup (IF sweep.db[k] = NoResult_pid THEN {} ELSE {sweep.db[k]})

\* C17: a combination whose scheme selection fails ends with the result
\* status 1, mcs 0, throughput 0 and with a normal return of its job, so
\* that job.get() never stops the execution on it; and when begin_execution
\* has ended, every combination has been executed and has its result in the
\* Db, which has been saved: the failure record for those whose scheme
\* selection failed, the result of the run for the others.
C17_SchemeFailureIsRecordedAndSkipped ==
    sweep.pc \notin {"none", "begin_execution"} =>
        /\ \A k \in 1..Len(sweep.jobs) :
              (SchemeSelectionFails(k) /\ sweep.jobs[k].state \in {"returned", "raised"}) =>
                  /\ sweep.jobs[k].state = "returned"
                  /\ ResultsOf(k) = {Res(k - 1, sweep.config_iterable[k], "1", 0, 0, 0)}
        /\ sweep.pc = "aborted" => ~SchemeSelectionFails(sweep.next)
        /\ sweep.pc = "done" =>
              /\ sweep.saved
              /\ \A k \in 1..Len(sweep.jobs) :
                    /\ sweep.jobs[k].state = "returned"
                    /\ sweep.db[k] # NoResult_pid
                    /\ sweep.db[k].pid = k - 1
                    /\ sweep.db[k].config = sweep.config_iterable[k]
                    /\ (sweep.db[k].status = "1") <=> SchemeSelectionFails(k)
                    /\ ~SchemeSelectionFails(k) =>
                          /\ sweep.db[k].status = "0" =>
                                sweep.db[k].throughput
                                    = sweep.config_iterable[k].others.throughput
                          /\ sweep.db[k].status # "0" =>
                                sweep.config_iterable[k].others.ends = "run_fails"

\* An execution that has ended with a combination whose scheme selection
\* failed, executed before one whose study ran and gave its result.
C17_Witness ==
    /\ sweep.pc = "done"
    /\ \E k \in 1..Len(sweep.jobs) : \E l \in (k + 1)..Len(sweep.jobs) :
          /\ SchemeSelectionFails(k)
          /\ sweep.db[k].status = "1"
          /\ ~SchemeSelectionFails(l)
          /\ sweep.db[l].status = "0"
          /\ sweep.db[l].mcs >= 1

(***************************************************************************)
(* Properties of get_log_sid                                               *)
(***************************************************************************)
\* The numbers that all-numeric names of the directory stand for.
ExistingSids(dirs) == {int(d) : d \in {x \in dirs : p_match(x)}}

LowestFreeSid(dirs) ==
    CHOOSE n \in 0..Cardinality(dirs) :
        /\ n \notin ExistingSids(dirs)
        /\ \A m \in 0..(n - 1) : m \in ExistingSids(dirs)

\* C21: get_log_sid returns the smallest non-negative integer that is not
\* the number of an existing all-numeric directory, for every set of
\* existing SIDs (empty, contiguous from 0, missing 0, with gaps).
C21_LowestPossibleSid ==
    helper.op = "get_log_sid" => helper.sid = LowestFreeSid(helper.dirs)

(***************************************************************************)
(* Frame of the interval allocator                                         *)
(***************************************************************************)
\* What the rule of C22 puts in the place of the free range (s, e).
ReplacementOf(s, e, a, b) ==
    IF a = s /\ b = e THEN << >>
    ELSE IF a = s THEN << <<b, e>> >>
    ELSE IF b = e THEN << <<s, a>> >>
    ELSE << <<s, a>>, <<b, e>> >>

\* C22: a successful allocate(a, b) changes only one free range (s, e) that
\* contains a and b: the range is removed when a = s and b = e, replaced by
\* (b, e) when only a = s, by (s, a) when only b = e, and by (s, a), (b, e) at
\* the same list position otherwise; the free ranges before and after it in
\* the list stay as they were, in the same order.
C22_AllocateChangesOneRange ==
    (Called /\ call.err = "") =>
       \E i \in 1..Len(call.before) :
          /\ Holds(call.before[i], call.t_start, call.t_end)
          /\ LET repl == ReplacementOf(call.before[i][1], call.before[i][2],
                                       call.t_start, call.t_end)
             IN  /\ Len(available_time) = Len(call.before) - 1 + Len(repl)
                 /\ \A j \in 1..(i - 1) : available_time[j] = call.before[j]
                 /\ \A k \in 1..Len(repl) : available_time[i - 1 + k] = repl[k]
                 /\ \A j \in (i + 1)..Len(call.before) :
                       available_time[j - 1 + Len(repl)] = call.before[j]

\* A proper range was cut out of the middle of a free range that is not the
\* last of the list.
C22_Witness ==
    /\ Called
    /\ call.err = ""
    /\ call.t_start < call.t_end
    /\ \E i \in 1..(Len(call.before) - 1) :
          /\ call.before[i][1] < call.t_start
          /\ call.t_end < call.before[i][2]
          /\ Len(available_time) = Len(call.before) + 1
          /\ available_time[i + 2] = call.before[i + 1]

\* C23: a failed add_child leaves the parent as it was: its free ranges and
\* its list of children are those of before the call, and the rejected child
\* is not in the list and has no parent back-reference.
C23_FailedAddChildChangesNothing ==
    (call.op = "add_child" /\ call.err # "") =>
       /\ available_time = call.before
       /\ children = call.children_before
       /\ call.child.parent_id = NoParent

\* After an accepted child, an add_child for a proper range that straddles
\* the end of a free range was rejected while free time was left.
C23_Witness ==
    /\ call.op = "add_child"
    /\ call.err = OverlappingAllocation
    /\ call.children_before # << >>
    /\ call.before # << >>
    /\ call.t_start < call.t_end

(***************************************************************************)
(* Properties of the beacon intervals DescriptiveInOutStudy.run builds     *)
(***************************************************************************)
\* DescriptiveInOutStudy.run has returned without an exception.
DescriptiveRunSucceeded ==
    /\ study.strategy = "descriptive"
    /\ Len(study.bi_children) = study.num_of_observed_bi

\* C24: whenever run() of the descriptive strategy succeeds, a beacon interval
\* with k SP-BFT holds exactly k + 1 SP-DATA, the num_of_data_allocations of
\* its BTI; SP-DATA number j is the j-th remaining free range (s, e) cut to
\* [s + guard, e - guard], and its duration is not negative.
C24_DataSpPerBeaconInterval ==
    DescriptiveRunSucceeded =>
       \A n \in 1..Len(study.bi_children) :
          LET b == study.bi_children[n]
              guard == Durations(dg).guard
          IN  /\ Len(b.sp) = b.noa_bft + 1
              /\ Len(b.sp) = study.num_of_data_allocations[n]
              /\ Len(b.sp) = Len(b.at)
              /\ \A j \in 1..Len(b.sp) :
                    /\ b.sp[j][1] = b.at[j][1] + guard
                    /\ b.sp[j][1] + b.sp[j][2] = b.at[j][2] - guard
                    /\ b.sp[j][2] >= 0

\* The leaves of SP-DATA j of the beacon interval record b.
LeavesOf(b, j) == b.blocks[j].leaves
LeafEnd(l) == l.timestamp + l.duration

\* C25: an SP-DATA of duration D gets exactly floor(D / data_with_overhead)
\* transmission blocks, block m starting m combined durations after the
\* start of the SP-DATA; no self-CTS, TX or ACK leaf is refused by the
\* allocator, every leaf lies inside its SP-DATA and no two leaves overlap.
C25_BlocksFillDataSp ==
    study.strategy = "descriptive" =>
       /\ study.err_at # "TX"
       /\ \A n \in 1..Len(study.bi_children) :
             LET b == study.bi_children[n]
                 dwo == Durations(dg).data_with_overhead
                 per_block == 1 + (IF study.enable_cts THEN 1 ELSE 0)
                                + (IF study.enable_ack THEN 1 ELSE 0)
             IN  \A j \in 1..Len(b.sp) :
                    LET s == b.sp[j][1]
                        D == b.sp[j][2]
                        leaves == LeavesOf(b, j)
                        num_of_blocks == D \div dwo
                    IN  /\ Cardinality({k \in 1..Len(leaves) : leaves[k].name = "TX"})
                              = num_of_blocks
                        /\ Len(leaves) = num_of_blocks * per_block
                        /\ \A m \in 0..(num_of_blocks - 1) :
                              leaves[m * per_block + 1].timestamp = s + m * dwo
                        /\ \A k \in 1..Len(leaves) :
                              s <= leaves[k].timestamp /\ LeafEnd(leaves[k]) <= s + D
                        /\ \A k \in 1..Len(leaves) : \A l \in 1..Len(leaves) :
                              k < l => ~Overlap(leaves[k].timestamp, LeafEnd(leaves[k]),
                                                leaves[l].timestamp, LeafEnd(leaves[l]))

(***************************************************************************)
(* C26  The correction of negative latencies                               *)
(***************************************************************************)
\* The run has computed its performance metrics and at least one sample.
MetricsComputed ==
    /\ study # NoStudy
    /\ study.pc = "put_result"
    /\ Len(study.t_msdu_arrival.value) > 0

\* horizon / sample count, in ticks
GenerationPeriod == Ticks(study.bi_duration * study.num_of_observed_bi) \div Len(study.t_msdu_arrival.value)

\* latency of sample k before the correction: generated at (k - 1) periods
RawLatency(k) == study.t_msdu_arrival.value[k] - (k - 1) * GenerationPeriod

LeastRawLatency == CHOOSE v \in {RawLatency(k) : k \in 1..Len(study.t_msdu_arrival.value)} : \A k \in 1..Len(study.t_msdu_arrival.value) : v <= RawLatency(k)

GeneratedIn(j, ds) ==
    {t \in {ds[1] + FirstArrivalOffset + m * ArrivalPeriod :
               m \in 0..Len(study.t_msdu_arrival.value)} :
        /\ t < UsableEnd(ds)
        /\ \E l \in 1..Len(study.t_msdu_arrival.value) :
              /\ study.sample_bi[l] = j - 1
              /\ study.t_msdu_arrival.value[l] = t + (j - 1) * Ticks(study.bi_duration)}

\* The end of the transmission whose data PPDU ends at t: with ACK, a SIFS
\* and the ACK follow.
TransmissionEnd(t) ==
    t + (IF study.enable_ack THEN Ticks(SIFS_NS) + Durations(dg).ack ELSE 0)

\* C27: in the FastInOutStudy every transmission with an arrival time lies
\* inside its DATA-SP <<s, e>>: its self-CTS (if any) and data PPDU start at
\* s or later, and the data PPDU, followed by SIFS + ACK when ACK is enabled,
\* ends at e or earlier.
C27_TransmissionInsideDataSp ==
    (RunEnded /\ study.strategy = "fast" /\ study.pc # "run_failed") =>
        \A j \in 1..study.num_of_observed_bi :
            \A k \in 1..Len(DataSpOf(j)) :
                \A t \in GeneratedIn(j, DataSpOf(j)[k]) :
                    /\ t - FirstArrivalOffset >= DataSpOf(j)[k][1]
                    /\ TransmissionEnd(t) <= DataSpOf(j)[k][2]

(***************************************************************************)
(* C28  The Librarian and the 'kill' message                               *)
(***************************************************************************)
\* The result of the job of pid k - 1 is in row k - 1 of the Db.
InOwnRow(k) ==
    /\ sweep.db[k] # NoResult_pid
    /\ sweep.db[k].pid = k - 1
    /\ sweep.db[k].config = sweep.config_iterable[k]

\* C28: when the Librarian takes 'kill' off the queue, every worker job has
\* put its result on the queue and the Librarian has added it to the Db, so
\* that the Db saved last holds the result of every combination in the row
\* of its own pid.
C28_KillAfterEveryResult ==
    (sweep # NoSweep /\ sweep.watcher = "stopped") =>
        /\ sweep.saved
        /\ sweep.q = << >>
        /\ \A k \in 1..Len(sweep.config_iterable) :
              /\ sweep.jobs[k].state = "returned"
              /\ InOwnRow(k)

\* The Librarian has taken 'kill' off the queue in a study of several
\* combinations, run on a pool of more than two processes.
C28_Witness ==
    /\ sweep # NoSweep
    /\ sweep.watcher = "stopped"
    /\ Len(sweep.config_iterable) >= 2
    /\ sweep.mp_pool_size >= 3
    /\ \A k \in 1..Len(sweep.config_iterable) : InOwnRow(k)

(***************************************************************************)
(* C29  Termination of begin_execution                                     *)
(***************************************************************************)
\* begin_execution has returned: every job collected, 'kill' received by the
\* Librarian, the Db saved, the pool closed and joined.
BeginExecutionReturned ==
    /\ sweep # NoSweep
    /\ sweep.pc = "done"
    /\ sweep.watcher = "stopped"
    /\ sweep.saved
    /\ \A k \in 1..Len(sweep.jobs) : sweep.jobs[k].state \in {"returned", "raised"}

\* C29: for every pool size >= 1 and every outcome of the worker jobs,
\* begin_execution returns in the end, with every job collected, the
\* Librarian stopped by 'kill' after saving the Db, and the pool joined.
C29_BeginExecutionTerminates == <>BeginExecutionReturned

\* Some job of the study raises an exception that simulate_single does not
\* catch.
SomeJobRaises ==
    \E k \in 1..Len(sweep.config.others) : sweep.config.others[k].ends = "raises"

\* With more than one process in the pool and no job that raises,
\* begin_execution returns in the end.
TerminatesWithSecondProcess ==
    (sweep.mp_pool_size >= 2 /\ ~SomeJobRaises) => <>BeginExecutionReturned

\* With a single process in the pool begin_execution never returns.
NeverReturnsWithOneProcess ==
    (sweep.mp_pool_size = 1) => [](~BeginExecutionReturned)

\* Once job.get() has raised the exception of a worker, 'kill' is never put
\* on the queue and the Librarian never stops.
NeverKilledWhenJobRaises ==
    [](sweep.pc = "aborted" => [](sweep.pc = "aborted" /\ sweep.watcher # "stopped"))

(***************************************************************************)
(* C30  set_mpdu_length with maximal MSDU aggregation                      *)
(***************************************************************************)
\* set_mpdu_length has been called with msdu_max_agg = True.
MaxAggregationCall == helper.op = "set_mpdu_length" /\ helper.msdu_max_agg

\* C30: with maximal MSDU aggregation and an MSDU of 1 .. 7920 octets,
\* set_mpdu_length takes floor(7935 / msdu_length_bytes) subframes and does
\* not raise: the A-MSDU is at most MAX_A_MSDU_LENGTH octets long.
C30_MaxAggregationWithinLimit ==
    MaxAggregationCall =>
        /\ helper.ret.num_of_a_msdu_subframes = MAX_A_MSDU_LENGTH \div helper.msdu_length_bytes
        /\ helper.ret.err = ""
        /\ helper.ret.a_msdu_length_bytes <= MAX_A_MSDU_LENGTH

\* The number of subframes alone is as C30 says.
SubframesAreFloorOfQuotient ==
    MaxAggregationCall =>
        helper.ret.num_of_a_msdu_subframes = MAX_A_MSDU_LENGTH \div helper.msdu_length_bytes

\* With maximal aggregation the call raises exactly when two or more
\* subframes, with their headers and padding, exceed MAX_A_MSDU_LENGTH.
RaisesWhenPaddedTotalExceeds ==
    MaxAggregationCall =>
        LET L == helper.msdu_length_bytes
            n == MAX_A_MSDU_LENGTH \div L
        IN  (helper.ret.err = SizeExceeded)
                <=> (n >= 2 /\ PaddedTotal(n, L) > MAX_A_MSDU_LENGTH)

====
